---- MODULE Spec2Model ----
(***************************************************************************)
(* CronoPay: the nonce coordinator of CronosTransferExecutor.transferToken *)
(* and the sequential ExecutionEngine, as state machines.                  *)
(*                                                                         *)
(* JavaScript runs one task at a time: a call runs from one await to the   *)
(* next without interleaving.  An action below is one such run.  The       *)
(* continuations of `await nonceLock` are microtasks: they run, in the     *)
(* order the awaits were made, before any other event is handled, so every *)
(* other action waits for the microtask queue to be empty.                 *)
(***************************************************************************)
EXTENDS Integers, Sequences, FiniteSets, TLC

VARIABLES
    \* --- CronosTransferExecutor statics (part_002:203-205)
    nonceLock,      \* the promise held in the static nonceLock
    lastNonce,      \* static lastNonce: a number or NULL
    lastNonceTime,  \* static lastNonceTime (ms)
    \* --- promises and the event loop
    resolved,       \* the promises that are resolved
    waiters,        \* promise -> the calls awaiting it, in await order
    microtasks,     \* continuations ready to run, in order
    timerDue,       \* call -> when its setTimeout(resolveLock, 100) is due
    now,            \* Date.now() (ms)
    \* --- each transferToken call
    pc,             \* call -> where the call is suspended
    nonce,          \* call -> its local `nonce`, the one it passes to transfer
    callNow,        \* call -> its local `now`, read when it acquired the lock
    \* --- the ledger (one signing account)
    chainNonce,     \* the account's transaction count at 'latest'
    mempool,        \* nonces of the transactions accepted and not yet mined
    signer,         \* call -> the account whose private key its executor has
    chainNonceB,    \* the transaction count of the second account
    \* --- history
    ledgerRead,     \* call -> what getNonce('latest') returned to it, or NULL
    errorSinceAcquire,  \* an error released the lock, no call acquired since
    seededBy,       \* the account whose ledger count the cache was seeded from
    \* --- BatchTransactionBuilder statics (part_007:26-28)
    batchNonceLock,     \* the promise held in the builder's static nonceLock
    batchLastNonce,     \* the builder's static lastNonce: a number or NULL
    batchLastNonceTime, \* the builder's static lastNonceTime (ms)
    \* --- each executeBatchTransfer call
    bpc,            \* batch call -> where the call is suspended
    bN,             \* batch call -> args.recipients.length
    bStart,         \* batch call -> its local `nonce`
    bCurrent,       \* batch call -> its local `currentNonce`
    bCallNow,       \* batch call -> its local `now`
    bTimerDue,      \* batch call -> when its release timer is due
    \* --- one cancelPendingTransaction call (part_002:307-335)
    kpc,            \* where the call is suspended
    kNonce,         \* its local `txNonce`
    \* --- ExecutionEngine.execute (part_005)
    plan,           \* the plan passed to execute: [steps |-> <<step, ...>>]
    stopOnFailure,  \* options.stopOnFailure
    status,         \* step index -> step.status
    stepError,      \* step index -> what step.error holds
    aborted,        \* the local `aborted`
    stepIdx,        \* the loop index i (1-based)
    condIdx,        \* the index of the condition being evaluated
    epc,            \* where execute is suspended
    result,         \* the shape of what callTool returned
    executionState, \* the keys of the engine's executionState map
    summary,        \* the summary execute returns, or NoSummary
    \* --- history of the run
    condLog,        \* step index -> the results of the conditions evaluated
    invoked,        \* step index -> number of callTool invocations for it
    abortedAt,      \* the step that set `aborted`, or 0
    runs,           \* the number of execute runs started on this engine
    clears,         \* the number of clearExecutionState calls made
    runKeys,        \* the executionState keys written by the current run
    holds,          \* for each key: the step and result field its value came from
    \* --- PlanningOrchestrator.createPlan (part_013)
    validatorTools, \* the tool names planValidator was built with, or NoTools
    callTools,      \* the availableTools argument of the current createPlan call
    cpc,            \* where createPlan is: idle, generating, returned, threw
    created,        \* what createPlan returned: [plan, validation], or NoPlan
    \* --- PlanValidator.validate (part_012)
    vpc,            \* where the validate call is: idle, returned, threw
    passed,         \* the draft plan as it was when validate was called
    vplan,          \* the same plan object after the call
    vresult,        \* what validate returned, or NoValidation
    \* --- the engine's condition evaluators
    connected,      \* MarketConditionEvaluator.connected
    connects,       \* how many times the market client was connected
    lastEval        \* what the last condition evaluation saw and returned

nonceVars == <<nonceLock, lastNonce, lastNonceTime, resolved, waiters, microtasks,
               timerDue, now, pc, nonce, callNow, chainNonce, mempool,
               ledgerRead, errorSinceAcquire, signer, chainNonceB, seededBy>>

engineVars == <<plan, stopOnFailure, status, stepError, aborted, stepIdx,
                condIdx, epc,
                result, executionState, summary, condLog, invoked, abortedAt,
                runs, clears, runKeys, holds>>

planVars == <<validatorTools, callTools, cpc, created>>

mixVars == <<batchNonceLock, batchLastNonce, batchLastNonceTime, bpc, bN, bStart,
             bCurrent, bCallNow, bTimerDue, kpc, kNonce>>

checkVars == <<vpc, passed, vplan, vresult>>

evalVars == <<connected, connects, lastEval>>

vars == <<nonceVars, engineVars, planVars, mixVars, checkVars, evalVars>>

\* ------------------------------------------------------------------ bounds
NumCalls == 4
MaxInitNonce == 0
MaxTicks == 1
MaxSteps == 2
MaxConds == 1
MaxRuns == 2
MaxClears == 1
NumBatch == 3
MaxRecipients == 2

\* ------------------------------------------------------- program constants
CacheWindowMs == 2000
ReleaseDelayMs == 100

NULL == -1
NoTimer == -1
NoAccount == "<none>"
InitialPromise == 0
NoSummary == [totalSteps |-> -1]
NoTools == {"<none>"}
NoPlan == [plan |-> "<none>"]

Calls == 1..NumCalls

\* part_002:207-208  the signing key of an executor: the one of the
\* environment (CRONOS_PRIVATE_KEY), or another one passed as opts.privateKey.
Accounts == {"A", "B"}

\* executeBatchTransfer calls are numbered after the transferToken calls; a
\* promise is named by the call that created it.
BatchCalls == (NumCalls + 1)..(NumCalls + NumBatch)

\* part_007:26  nonceLock = Promise.resolve()
BatchInitialPromise == NumCalls + NumBatch + 1

Promises == 0..(NumCalls + NumBatch + 1)

\* The instants the clock is read at: the first release delays after the start
\* and after the cache window has passed.
Instants == {k * ReleaseDelayMs : k \in 0..MaxTicks}
            \cup {CacheWindowMs + k * ReleaseDelayMs : k \in 0..MaxTicks}

\* ----------------------------------------------------------------- helpers
InFlight(c) == pc[c] \in {"awaitLock", "getNonce", "transfer"}

\* A call holds the lock from the statement after `await nonceLock`, where it
\* installs its own promise, until resolveLock resolves that promise.
Holds(c) == pc[c] \in {"getNonce", "transfer"} \/ timerDue[c] # NoTimer

\* resolveLock: the promise is resolved and the calls awaiting it resume in
\* the order the awaits were made.
ResolvePromise(p) ==
    /\ resolved' = resolved \cup {p}
    /\ microtasks' = microtasks \o waiters[p]
    /\ waiters' = [waiters EXCEPT ![p] = <<>>]

\* The cache is never used: every call queries the ledger.
CacheFresh_Never(t) == FALSE

\* lastNonce is a field of the instance: a new executor finds no cache.
CacheFresh_PerInstance(t) == FALSE

\* The age of the entry is not looked at.
CacheFresh_AnyAge(t) == lastNonce # NULL

\* part_002:274  lastNonce !== null && (now - lastNonceTime) < 2000
CacheFresh(t) == lastNonce # NULL /\ (t - lastNonceTime) < CacheWindowMs

\* The catch rethrows without releasing the lock.
CatchError_KeepsLock(c) ==
    /\ lastNonce' = NULL
    /\ UNCHANGED <<resolved, microtasks, waiters>>
    /\ pc' = [pc EXCEPT ![c] = "threw"]
    /\ errorSinceAcquire' = TRUE

\* part_002:299-304  catch: reset the cache, release the lock, rethrow.
CatchError(c) ==
    /\ lastNonce' = NULL
    /\ ResolvePromise(c)
    /\ pc' = [pc EXCEPT ![c] = "threw"]
    /\ errorSinceAcquire' = TRUE

\* ------------------------------------------------------------------- Init
NonceStatics ==
    /\ nonceLock = InitialPromise
    /\ lastNonce = NULL
    /\ lastNonceTime = 0
    /\ resolved = {InitialPromise, BatchInitialPromise}
    /\ waiters = [p \in Promises |-> <<>>]
    /\ microtasks = <<>>
    /\ timerDue = [c \in Calls |-> NoTimer]
    /\ now = 0
    /\ pc = [c \in Calls |-> "idle"]
    /\ nonce = [c \in Calls |-> NULL]
    /\ callNow = [c \in Calls |-> 0]
    /\ chainNonce \in 0..MaxInitNonce
    /\ mempool = {}
    /\ ledgerRead = [c \in Calls |-> NULL]
    /\ errorSinceAcquire = FALSE
    /\ seededBy = NoAccount

\* part_002:71-82  every tool call builds its executor from the environment.
NonceInit ==
    /\ NonceStatics
    /\ signer = [c \in Calls |-> "A"]
    /\ chainNonceB = 0

\* part_002:207-208  executors built with either key in one process.
KeysInit ==
    /\ NonceStatics
    /\ signer \in [Calls -> Accounts]
    /\ chainNonceB \in 0..MaxInitNonce

\* part_002:255-256, 280  the wallet of the call's executor: getNonce counts
\* the transactions of its own account.
LedgerCount(c) == IF signer[c] = "A" THEN chainNonce ELSE chainNonceB

\* ---------------------------------------------------------- transferToken
\* part_002:246-262  the address checks, decimals() and parseUnits, which
\* touch nothing shared and may throw; then the call awaits the promise that
\* nonceLock holds at this moment.  Awaiting a resolved promise queues the
\* continuation at once.  Calls are numbered in the order they are made.
Enter(c) ==
    /\ UNCHANGED <<engineVars, planVars, mixVars, checkVars, evalVars>>
    /\ UNCHANGED <<signer, chainNonceB, seededBy>>
    /\ microtasks = <<>>
    /\ pc[c] = "idle"
    /\ IF c = 1 THEN TRUE ELSE pc[c - 1] # "idle"
    /\ \E ok \in BOOLEAN :
          IF ok
          THEN /\ pc' = [pc EXCEPT ![c] = "awaitLock"]
               /\ IF nonceLock \in resolved
                  THEN /\ microtasks' = Append(microtasks, c)
                       /\ UNCHANGED waiters
                  ELSE /\ waiters' = [waiters EXCEPT
                                        ![nonceLock] = Append(@, c)]
                       /\ UNCHANGED microtasks
          ELSE /\ pc' = [pc EXCEPT ![c] = "threw"]
               /\ UNCHANGED <<waiters, microtasks>>
    /\ UNCHANGED <<nonceLock, lastNonce, lastNonceTime, resolved, timerDue,
                   now, nonce, callNow, chainNonce, mempool,
                   ledgerRead, errorSinceAcquire>>

\* part_002:264-286  the continuation of `await nonceLock`: install a new
\* promise, read the clock, then either take the cached nonce and call
\* token.transfer, or call wallet.getNonce('latest').
Acquire(c) ==
    /\ UNCHANGED <<engineVars, planVars, mixVars, checkVars, evalVars>>
    /\ UNCHANGED <<signer, chainNonceB, seededBy>>
    /\ microtasks # <<>>
    /\ c = Head(microtasks)
    /\ microtasks' = Tail(microtasks)
    /\ nonceLock' = c
    /\ callNow' = [callNow EXCEPT ![c] = now]
    /\ errorSinceAcquire' = FALSE
    /\ IF CacheFresh(now)
       THEN /\ nonce' = [nonce EXCEPT ![c] = lastNonce]
            /\ lastNonce' = lastNonce + 1
            /\ pc' = [pc EXCEPT ![c] = "transfer"]
       ELSE /\ pc' = [pc EXCEPT ![c] = "getNonce"]
            /\ UNCHANGED <<nonce, lastNonce>>
    /\ UNCHANGED <<lastNonceTime, resolved, waiters, timerDue, now,
                   chainNonce, mempool, ledgerRead>>

\* part_002:280-286  getNonce('latest') returns the account's mined count; the
\* cache is reseeded with the time read before the query, and token.transfer
\* is called.  Or getNonce raises.
GetNonceReturn(c) ==
    /\ UNCHANGED <<engineVars, planVars, mixVars, checkVars, evalVars>>
    /\ UNCHANGED <<signer, chainNonceB>>
    /\ microtasks = <<>>
    /\ pc[c] = "getNonce"
    /\ \E ok \in BOOLEAN :
          IF ok
          THEN /\ ledgerRead' = [ledgerRead EXCEPT ![c] = LedgerCount(c)]
               /\ nonce' = [nonce EXCEPT ![c] = LedgerCount(c)]
               /\ lastNonce' = LedgerCount(c) + 1
               /\ lastNonceTime' = callNow[c]
               /\ seededBy' = signer[c]
               /\ pc' = [pc EXCEPT ![c] = "transfer"]
               /\ UNCHANGED <<resolved, waiters, microtasks, errorSinceAcquire>>
          ELSE /\ CatchError(c)
               /\ UNCHANGED <<nonce, lastNonceTime, ledgerRead, seededBy>>
    /\ UNCHANGED <<nonceLock, timerDue, now, callNow, chainNonce, mempool>>

\* part_002:286-298  token.transfer returns once the transaction is broadcast:
\* the lock is released by a timer 100 ms later and the call returns.  Or it
\* raises (the ledger refuses a nonce already mined; the network may fail).
TransferReturn(c) ==
    /\ UNCHANGED <<engineVars, planVars, mixVars, checkVars, evalVars>>
    /\ UNCHANGED <<signer, chainNonceB, seededBy>>
    /\ microtasks = <<>>
    /\ pc[c] = "transfer"
    /\ \E ok \in BOOLEAN :
          IF ok /\ nonce[c] >= LedgerCount(c)
          THEN /\ mempool' = IF signer[c] = "A"
                             THEN mempool \cup {nonce[c]}
                             ELSE mempool
               /\ timerDue' = [timerDue EXCEPT ![c] = now + ReleaseDelayMs]
               /\ pc' = [pc EXCEPT ![c] = "returned"]
               /\ UNCHANGED <<lastNonce, resolved, waiters, microtasks,
                              errorSinceAcquire>>
          ELSE /\ CatchError(c)
               /\ UNCHANGED <<mempool, timerDue>>
    /\ UNCHANGED <<nonceLock, lastNonceTime, now, nonce, callNow, chainNonce,
                   ledgerRead>>

\* part_002:289  setTimeout(() => resolveLock(), 100) fires.
TimerFire(c) ==
    /\ UNCHANGED <<engineVars, planVars, mixVars, checkVars, evalVars>>
    /\ UNCHANGED <<signer, chainNonceB, seededBy>>
    /\ microtasks = <<>>
    /\ timerDue[c] # NoTimer
    /\ now >= timerDue[c]
    /\ timerDue' = [timerDue EXCEPT ![c] = NoTimer]
    /\ ResolvePromise(c)
    /\ UNCHANGED <<nonceLock, lastNonce, lastNonceTime, now, pc, nonce,
                   callNow, chainNonce, mempool,
                   ledgerRead, errorSinceAcquire>>

\* ------------------------------------------------------------ environment
\* Time passes.  Only differences of times are ever read, so the clock is
\* advanced only while something is timed: a release timer that is not due,
\* a cache entry, or a ledger query whose result will be stamped.
Tick ==
    /\ UNCHANGED <<engineVars, planVars, mixVars, checkVars, evalVars>>
    /\ UNCHANGED <<signer, chainNonceB, seededBy>>
    /\ microtasks = <<>>
    /\ \/ \E c \in Calls : timerDue[c] # NoTimer /\ now < timerDue[c]
       \/ lastNonce # NULL
       \/ \E c \in Calls : pc[c] = "getNonce"
       \/ \E b \in BatchCalls : bTimerDue[b] # NoTimer /\ now < bTimerDue[b]
       \/ batchLastNonce # NULL
       \/ \E b \in BatchCalls : bpc[b] = "getNonce"
    /\ \E t \in Instants :
          /\ t > now
          /\ now' = t
    /\ UNCHANGED <<nonceLock, lastNonce, lastNonceTime, resolved, waiters,
                   microtasks, timerDue, pc, nonce, callNow, chainNonce,
                   mempool, ledgerRead, errorSinceAcquire>>

\* The ledger mines the pending transaction that carries the account's next
\* nonce.
Mine ==
    /\ UNCHANGED <<engineVars, planVars, mixVars, checkVars, evalVars>>
    /\ UNCHANGED <<signer, chainNonceB, seededBy>>
    /\ microtasks = <<>>
    /\ chainNonce \in mempool
    /\ chainNonce' = chainNonce + 1
    /\ mempool' = mempool \ {chainNonce}
    /\ UNCHANGED <<nonceLock, lastNonce, lastNonceTime, resolved, waiters,
                   microtasks, timerDue, now, pc, nonce, callNow,
                   ledgerRead, errorSinceAcquire>>

NonceNext ==
    \/ \E c \in Calls : Enter(c)
    \/ \E c \in Calls : Acquire(c)
    \/ \E c \in Calls : GetNonceReturn(c)
    \/ \E c \in Calls : TransferReturn(c)
    \/ \E c \in Calls : TimerFire(c)
    \/ Tick
    \/ Mine

\* The caller awaits each transferToken call before it makes the next one.
EnterAwaited(c) ==
    /\ \A d \in Calls : ~InFlight(d)
    /\ Enter(c)

SeqNext ==
    \/ \E c \in Calls : EnterAwaited(c)
    \/ \E c \in Calls : Acquire(c)
    \/ \E c \in Calls : GetNonceReturn(c)
    \/ \E c \in Calls : TransferReturn(c)
    \/ \E c \in Calls : TimerFire(c)
    \/ Tick
    \/ Mine

\* The same, with executors of either account: see KeysInit.
KeysNext ==
    \/ \E c \in Calls : EnterAwaited(c)
    \/ \E c \in Calls : Acquire(c)
    \/ \E c \in Calls : GetNonceReturn(c)
    \/ \E c \in Calls : TransferReturn(c)
    \/ \E c \in Calls : TimerFire(c)
    \/ Tick
    \/ Mine


\* ------------------------------------------------- executeBatchTransfer
\* part_007:63-100  a batch call holds the builder's lock from the statement
\* after `await nonceLock` until its resolveLock.
BatchHolds(b) == bpc[b] \in {"getNonce", "transfer"} \/ bTimerDue[b] # NoTimer

\* part_007:76
BatchCacheFresh(t) ==
    batchLastNonce # NULL /\ (t - batchLastNonceTime) < CacheWindowMs

\* part_007:113-117  catch: the builder's cache is invalidated, the lock
\* released, the error rethrown.
BatchCatch(b) ==
    /\ batchLastNonce' = NULL
    /\ ResolvePromise(b)
    /\ bpc' = [bpc EXCEPT ![b] = "threw"]

MixIdle ==
    /\ batchNonceLock = BatchInitialPromise
    /\ batchLastNonce = NULL
    /\ batchLastNonceTime = 0
    /\ bpc = [b \in BatchCalls |-> "idle"]
    /\ bN = [b \in BatchCalls |-> 0]
    /\ bStart = [b \in BatchCalls |-> NULL]
    /\ bCurrent = [b \in BatchCalls |-> NULL]
    /\ bCallNow = [b \in BatchCalls |-> 0]
    /\ bTimerDue = [b \in BatchCalls |-> NoTimer]
    /\ kpc = "idle"
    /\ kNonce = NULL

\* part_007:35-63  the argument checks (no recipient: throw), decimals() and
\* symbol(), which may throw; then the call awaits the builder's nonceLock.
BatchEnter(b) ==
    /\ UNCHANGED <<engineVars, planVars, checkVars, evalVars>>
    /\ microtasks = <<>>
    /\ bpc[b] = "idle"
    /\ \A a \in BatchCalls : a < b => bpc[a] # "idle"
    /\ \E ok \in BOOLEAN, n \in 0..MaxRecipients :
          IF ok /\ n > 0
          THEN /\ bpc' = [bpc EXCEPT ![b] = "awaitLock"]
               /\ bN' = [bN EXCEPT ![b] = n]
               /\ IF batchNonceLock \in resolved
                  THEN /\ microtasks' = Append(microtasks, b)
                       /\ UNCHANGED waiters
                  ELSE /\ waiters' = [waiters EXCEPT
                                        ![batchNonceLock] = Append(@, b)]
                       /\ UNCHANGED microtasks
          ELSE /\ bpc' = [bpc EXCEPT ![b] = "threw"]
               /\ UNCHANGED <<bN, waiters, microtasks>>
    /\ UNCHANGED <<nonceLock, lastNonce, lastNonceTime, resolved, timerDue,
                   now, pc, nonce, callNow, chainNonce, mempool, ledgerRead,
                   errorSinceAcquire, signer, chainNonceB, seededBy>>
    /\ UNCHANGED <<batchNonceLock, batchLastNonce, batchLastNonceTime, bStart,
                   bCurrent, bCallNow, bTimerDue, kpc, kNonce>>

\* part_007:65-88  the continuation of `await nonceLock`: install a new
\* promise, read the clock, take the builder's cached nonce or query the
\* ledger; with a nonce, the first transfer is sent.
BatchAcquire(b) ==
    /\ UNCHANGED <<engineVars, planVars, checkVars, evalVars>>
    /\ microtasks # <<>>
    /\ b = Head(microtasks)
    /\ microtasks' = Tail(microtasks)
    /\ batchNonceLock' = b
    /\ bCallNow' = [bCallNow EXCEPT ![b] = now]
    /\ IF BatchCacheFresh(now)
       THEN /\ bStart' = [bStart EXCEPT ![b] = batchLastNonce]
            /\ bCurrent' = [bCurrent EXCEPT ![b] = batchLastNonce]
            /\ batchLastNonce' = batchLastNonce + 1
            /\ bpc' = [bpc EXCEPT ![b] = "transfer"]
       ELSE /\ bpc' = [bpc EXCEPT ![b] = "getNonce"]
            /\ UNCHANGED <<bStart, bCurrent, batchLastNonce>>
    /\ UNCHANGED <<nonceLock, lastNonce, lastNonceTime, resolved, waiters,
                   timerDue, now, pc, nonce, callNow, chainNonce, mempool,
                   ledgerRead, errorSinceAcquire, signer, chainNonceB,
                   seededBy>>
    /\ UNCHANGED <<batchLastNonceTime, bN, bTimerDue, kpc, kNonce>>

\* part_007:80-82  getNonce('latest') returns, or raises.
BatchGetNonceReturn(b) ==
    /\ UNCHANGED <<engineVars, planVars, checkVars, evalVars>>
    /\ microtasks = <<>>
    /\ bpc[b] = "getNonce"
    /\ \E ok \in BOOLEAN :
          IF ok
          THEN /\ bStart' = [bStart EXCEPT ![b] = chainNonce]
               /\ bCurrent' = [bCurrent EXCEPT ![b] = chainNonce]
               /\ batchLastNonce' = chainNonce + 1
               /\ batchLastNonceTime' = bCallNow[b]
               /\ bpc' = [bpc EXCEPT ![b] = "transfer"]
               /\ UNCHANGED <<resolved, waiters, microtasks>>
          ELSE /\ BatchCatch(b)
               /\ UNCHANGED <<bStart, bCurrent, batchLastNonceTime>>
    /\ UNCHANGED <<nonceLock, lastNonce, lastNonceTime, timerDue, now, pc,
                   nonce, callNow, chainNonce, mempool, ledgerRead,
                   errorSinceAcquire, signer, chainNonceB, seededBy>>
    /\ UNCHANGED <<batchNonceLock, bN, bCallNow, bTimerDue, kpc, kNonce>>

\* part_007:89-100  one token.transfer of the loop returns: currentNonce is
\* advanced and the next transfer is sent; after the last one the cache is set
\* to currentNonce and the release timer is started.  Or it raises.
BatchTransferReturn(b) ==
    /\ UNCHANGED <<engineVars, planVars, checkVars, evalVars>>
    /\ microtasks = <<>>
    /\ bpc[b] = "transfer"
    /\ \E ok \in BOOLEAN :
          IF ok /\ bCurrent[b] >= chainNonce
          THEN /\ mempool' = mempool \cup {bCurrent[b]}
               /\ bCurrent' = [bCurrent EXCEPT ![b] = @ + 1]
               /\ IF bCurrent[b] + 1 - bStart[b] = bN[b]
                  THEN /\ batchLastNonce' = bCurrent[b] + 1
                       /\ bTimerDue' = [bTimerDue EXCEPT
                                          ![b] = now + ReleaseDelayMs]
                       /\ bpc' = [bpc EXCEPT ![b] = "returned"]
                  ELSE UNCHANGED <<batchLastNonce, bTimerDue, bpc>>
               /\ UNCHANGED <<resolved, waiters, microtasks>>
          ELSE /\ BatchCatch(b)
               /\ UNCHANGED <<mempool, bCurrent, bTimerDue>>
    /\ UNCHANGED <<nonceLock, lastNonce, lastNonceTime, timerDue, now, pc,
                   nonce, callNow, chainNonce, ledgerRead, errorSinceAcquire,
                   signer, chainNonceB, seededBy>>
    /\ UNCHANGED <<batchNonceLock, batchLastNonceTime, bN, bStart, bCallNow,
                   kpc, kNonce>>

\* part_007:100  setTimeout(() => resolveLock(), 100) fires.
BatchTimerFire(b) ==
    /\ UNCHANGED <<engineVars, planVars, checkVars, evalVars>>
    /\ microtasks = <<>>
    /\ bTimerDue[b] # NoTimer
    /\ now >= bTimerDue[b]
    /\ bTimerDue' = [bTimerDue EXCEPT ![b] = NoTimer]
    /\ ResolvePromise(b)
    /\ UNCHANGED <<nonceLock, lastNonce, lastNonceTime, timerDue, now, pc,
                   nonce, callNow, chainNonce, mempool, ledgerRead,
                   errorSinceAcquire, signer, chainNonceB, seededBy>>
    /\ UNCHANGED <<batchNonceLock, batchLastNonce, batchLastNonceTime, bpc, bN,
                   bStart, bCurrent, bCallNow, kpc, kNonce>>

\* ---------------------------------------------- cancelPendingTransaction
\* part_002:312  wallet.getNonce('pending'): the mined count plus the pending
\* transactions that follow it without a gap.
PendingCount ==
    CHOOSE k \in chainNonce..(chainNonce + Cardinality(mempool)) :
        /\ k \notin mempool
        /\ \A m \in chainNonce..(k - 1) : m \in mempool

\* part_002:307-335  cancelPendingTransaction awaits no lock and reads no
\* cache.
CancelHolds == FALSE

\* part_002:307-312  the call starts: with a nonce argument it goes on to
\* send, without one it queries the pending count.
CancelStart ==
    /\ UNCHANGED <<engineVars, planVars, nonceVars, checkVars, evalVars>>
    /\ microtasks = <<>>
    /\ kpc = "idle"
    /\ \E given \in {NULL} \cup 0..(MaxInitNonce + 1) :
          IF given = NULL
          THEN kpc' = "getNonce" /\ UNCHANGED kNonce
          ELSE kpc' = "send" /\ kNonce' = given
    /\ UNCHANGED <<batchNonceLock, batchLastNonce, batchLastNonceTime, bpc, bN,
                   bStart, bCurrent, bCallNow, bTimerDue>>

\* part_002:312  getNonce('pending') returns, or raises (nothing catches).
CancelGetNonceReturn ==
    /\ UNCHANGED <<engineVars, planVars, nonceVars, checkVars, evalVars>>
    /\ microtasks = <<>>
    /\ kpc = "getNonce"
    /\ \E ok \in BOOLEAN :
          IF ok
          THEN kpc' = "send" /\ kNonce' = PendingCount
          ELSE kpc' = "threw" /\ UNCHANGED kNonce
    /\ UNCHANGED <<batchNonceLock, batchLastNonce, batchLastNonceTime, bpc, bN,
                   bStart, bCurrent, bCallNow, bTimerDue>>

\* part_002:315-325  sendTransaction with that nonce returns once the
\* transaction is accepted (it takes the place of a pending one with the same
\* nonce), or raises; then the call waits for one confirmation.
CancelSendReturn ==
    /\ UNCHANGED <<engineVars, planVars, checkVars, evalVars>>
    /\ microtasks = <<>>
    /\ kpc = "send"
    /\ \E ok \in BOOLEAN :
          IF ok /\ kNonce >= chainNonce
          THEN kpc' = "wait" /\ mempool' = mempool \cup {kNonce}
          ELSE kpc' = "threw" /\ UNCHANGED mempool
    /\ UNCHANGED <<nonceLock, lastNonce, lastNonceTime, resolved, waiters,
                   microtasks, timerDue, now, pc, nonce, callNow, chainNonce,
                   ledgerRead, errorSinceAcquire, signer, chainNonceB,
                   seededBy>>
    /\ UNCHANGED <<batchNonceLock, batchLastNonce, batchLastNonceTime, bpc, bN,
                   bStart, bCurrent, bCallNow, bTimerDue, kNonce>>

\* part_002:325-334  tx.wait(1) returns when the transaction is mined.
CancelWaitReturn ==
    /\ UNCHANGED <<engineVars, planVars, nonceVars, checkVars, evalVars>>
    /\ microtasks = <<>>
    /\ kpc = "wait"
    /\ kNonce < chainNonce
    /\ kpc' = "returned"
    /\ UNCHANGED <<batchNonceLock, batchLastNonce, batchLastNonceTime, bpc, bN,
                   bStart, bCurrent, bCallNow, bTimerDue, kNonce>>

\* One transferToken call, one batch call and a cancel call for one account.
EnterOne(c) == c = 1 /\ Enter(c)
BatchEnterOne(b) == b = NumCalls + 1 /\ BatchEnter(b)

MixNext ==
    \/ \E c \in Calls : EnterOne(c)
    \/ \E c \in Calls : Acquire(c)
    \/ \E c \in Calls : GetNonceReturn(c)
    \/ \E c \in Calls : TransferReturn(c)
    \/ \E c \in Calls : TimerFire(c)
    \/ \E b \in BatchCalls : BatchEnterOne(b)
    \/ \E b \in BatchCalls : BatchAcquire(b)
    \/ \E b \in BatchCalls : BatchGetNonceReturn(b)
    \/ \E b \in BatchCalls : BatchTransferReturn(b)
    \/ \E b \in BatchCalls : BatchTimerFire(b)
    \/ CancelStart
    \/ CancelGetNonceReturn
    \/ CancelSendReturn
    \/ CancelWaitReturn
    \/ Tick
    \/ Mine

\* executeBatchTransfer calls on one account, and nothing else.
BatchNext ==
    \/ \E b \in BatchCalls : BatchEnter(b)
    \/ \E b \in BatchCalls : BatchAcquire(b)
    \/ \E b \in BatchCalls : BatchGetNonceReturn(b)
    \/ \E b \in BatchCalls : BatchTransferReturn(b)
    \/ \E b \in BatchCalls : BatchTimerFire(b)
    \/ Tick
    \/ Mine

\* part_002:289, part_007:100  the clock reaches the release timer that is
\* due first.
Elapse ==
    /\ UNCHANGED <<engineVars, planVars, checkVars, evalVars>>
    /\ microtasks = <<>>
    /\ LET pending == {timerDue[c] : c \in Calls} \cup {bTimerDue[b] : b \in BatchCalls}
           later == {t \in pending : t # NoTimer /\ t > now}
       IN  /\ later # {}
           /\ \A t \in pending : t # NoTimer => t > now
           /\ now' = CHOOSE t \in later : \A u \in later : t <= u
    /\ UNCHANGED <<nonceLock, lastNonce, lastNonceTime, resolved, waiters,
                   microtasks, timerDue, pc, nonce, callNow, chainNonce,
                   mempool, ledgerRead, errorSinceAcquire, signer,
                   chainNonceB, seededBy>>
    /\ UNCHANGED mixVars

\* The calls of a process that uses one of the two operations: transferToken
\* calls that may overlap, or executeBatchTransfer calls.  Nothing is mined
\* meanwhile: a transfer can raise whatever the ledger holds.
EnterTransfers(c) == (\A b \in BatchCalls : bpc[b] = "idle") /\ Enter(c)
EnterBatches(b) == (\A c \in Calls : pc[c] = "idle") /\ BatchEnter(b)

LiveNext ==
    \/ \E c \in Calls : EnterTransfers(c)
    \/ \E c \in Calls : Acquire(c)
    \/ \E c \in Calls : GetNonceReturn(c)
    \/ \E c \in Calls : TransferReturn(c)
    \/ \E c \in Calls : TimerFire(c)
    \/ \E b \in BatchCalls : EnterBatches(b)
    \/ \E b \in BatchCalls : BatchAcquire(b)
    \/ \E b \in BatchCalls : BatchGetNonceReturn(b)
    \/ \E b \in BatchCalls : BatchTransferReturn(b)
    \/ \E b \in BatchCalls : BatchTimerFire(b)
    \/ Elapse
    \/ Tick

\* The event loop runs every queued continuation and every timer that is
\* due, the clock advances, and every ledger call returns or raises.
LiveFairness ==
    /\ \A c \in Calls :
          /\ WF_vars(Acquire(c))
          /\ WF_vars(GetNonceReturn(c))
          /\ WF_vars(TransferReturn(c))
          /\ WF_vars(TimerFire(c))
    /\ \A b \in BatchCalls :
          /\ WF_vars(BatchAcquire(b))
          /\ WF_vars(BatchGetNonceReturn(b))
          /\ WF_vars(BatchTransferReturn(b))
          /\ WF_vars(BatchTimerFire(b))
    /\ WF_vars(Elapse)

\* ------------------------------------------------------------ plan model
\* src/planning/types.ts:1-6
RiskLevels == {"low", "medium", "high", "critical"}

\* The operation registry (mcpClient.listTools()) and a name that is not in it.
RegisteredTools == {"getBalance", "transferToken"}
UnknownTool == "doesNotExist"

\* What a draft plan from the proposer may hold in a field it should not.
MissingValue == "<undefined>"

\* part_012:90, condition-evaluator.ts:49  parseFloat of the texts of the
\* model: the number NaN, or a number, kept in units of 0.00001.
PerUnit == 100000
NaN == [nan |-> TRUE, num |-> 0]
Number(n) == [nan |-> FALSE, num |-> n]
ParseFloat(text) ==
    CASE text = "50" -> Number(50 * PerUnit)
      [] text = "50.00005" -> Number(50 * PerUnit + 5)
      [] text = "1000" -> Number(1000 * PerUnit)
      [] text = "5000" -> Number(5000 * PerUnit)
      [] text = "0" -> Number(0)
      [] text = "-5" -> Number(0 - 5 * PerUnit)
      [] text = "2" -> Number(2 * PerUnit)
      [] text = "-2" -> Number(0 - 2 * PerUnit)
      [] text = "3" -> Number(3 * PerUnit)
      [] text = "-3" -> Number(0 - 3 * PerUnit)
      [] OTHER -> NaN

\* What execute and validate read of a step: its tool, its risk level and how
\* many conditions guard it.
\* condition-evaluator.ts:16-20, part_005:158-172  what a step's conditions
\* ask: the outside world (balance_check calls getBalance, the market checks
\* call the price service), or the engine's executionState (custom).
CondKinds == {"external", "custom"}

\* condition-evaluator.ts:69  context.executionState.get(condition.field),
\* for a condition on the balance that a getBalance step stored.
CustomField == <<"current_balance", 0>>

StepInputs == [toolName : RegisteredTools \cup {UnknownTool},
               riskLevel : RiskLevels,
               numConds : 0..MaxConds,
               condKind : CondKinds]

\* The plans of a single run.  The answer to an external condition is free,
\* so it covers every answer a custom condition can give in a run.
Plans ==
    [steps : UNION {[1..n -> {st \in StepInputs : st.condKind = "external"}] :
                        n \in 0..MaxSteps}]

\* The plans run one after another on one engine: one low-risk step on a
\* registered tool, unconditional or behind one condition of either kind.
RunPlans ==
    [steps : [1..1 -> {st \in StepInputs :
                          /\ st.toolName \in RegisteredTools
                          /\ st.riskLevel = "low"
                          /\ st.numConds <= 1
                          /\ st.numConds = 0 => st.condKind = "external"}]]

\* types.ts:16-23  ConditionOperator
Operators == {"gt", "lt", "eq", "neq", "gte", "lte"}

\* The plans run to exercise the evaluators: low- or high-risk getBalance
\* steps behind one condition with its operator and expected value, or behind
\* two conditions, the second of the kind `then`.  A one-step plan has any
\* condition; a longer one has market conditions.
MaxEvalSteps == 2
EvalStep(risk, kind, operator, value) ==
    [toolName |-> "getBalance", riskLevel |-> risk, numConds |-> 1,
     condKind |-> kind, operator |-> operator, value |-> value,
     then |-> "none"]
EvalPlans ==
    LET EvalSteps ==
            {EvalStep(risk, kind, operator, "50") :
                risk \in {"low", "high"},
                kind \in {"balance_check", "price_check", "volatility_check"},
                operator \in Operators}
            \cup {EvalStep(risk, "trend_check", operator, trend) :
                      risk \in {"low", "high"},
                      operator \in {"eq", "neq", "gt"},
                      trend \in {"bullish", "neutral", "bearish", "Bullish"}}
            \cup {EvalStep(risk, "custom", "eq", "50") : risk \in {"low", "high"}}
        MarketSteps ==
            {EvalStep("low", "price_check", "gt", "50"),
             EvalStep("low", "volatility_check", "gt", "50"),
             EvalStep("low", "trend_check", "eq", "neutral")}
        GuardedTwice ==
            {[EvalStep(risk, kind, "gt", "50") EXCEPT !.numConds = 2,
                                                      !.then = next] :
                risk \in {"low", "high"},
                kind \in {"balance_check", "price_check", "custom"},
                next \in {"balance_check", "volatility_check"}}
    IN  [steps : [1..1 -> EvalSteps \cup GuardedTwice]
                     \cup UNION {[1..n -> MarketSteps] : n \in 2..MaxEvalSteps}]

\* part_012:38-40  'Plan must have at least one step'
ValidateSchema(p) == IF Len(p.steps) = 0 THEN {<<"no_steps", 0>>} ELSE {}

\* part_012:46-59  "Unknown tool '<name>'" for a step whose tool is not registered
ValidateSteps(p, tools) ==
    {<<"unknown_tool", j>> : j \in {m \in DOMAIN p.steps :
                                       p.steps[m].toolName \notin tools}}

\* part_012:11-26  errors accumulate; valid exactly when there is none.
Validate(p, tools) ==
    LET errors == ValidateSchema(p) \cup ValidateSteps(p, tools)
    IN  [valid |-> errors = {}, errors |-> errors]

\* The risk level alone decides, whatever stopOnFailure says.
ShouldAbortOnSkip_RiskOnly(step, sof) == step.riskLevel \in {"high", "critical"}

\* ------------------------------------------------- ExecutionEngine.execute
\* part_005:207-210
ShouldAbortOnSkip(step, sof) ==
    IF ~sof THEN FALSE ELSE step.riskLevel \in {"high", "critical"}

\* part_005:212-215
ShouldAbortOnFailure(step, sof) ==
    IF ~sof THEN FALSE ELSE step.riskLevel \in {"high", "critical"}

\* The loop does not look at `aborted`.
SkipsAborted_Never == FALSE

\* part_005:52  if (aborted)
SkipsAborted == aborted

\* An unmet condition does not stop the step.
ConditionFails_Never(met) == FALSE

\* part_005:174  if (!result.met)
ConditionFails(met) == ~met

\* What mcpClient.callTool can give for a tool (part_003:128-171): a parsed
\* object, a text that is not JSON, a parsed null, or an error.  The server
\* answers a call of an unregistered tool with an error.
Outcomes(tool) ==
    IF tool \in RegisteredTools THEN {"object", "string", "null", "raise"}
    ELSE {"raise"}

\* part_005:195, 201  typeof result === 'string' ? JSON.parse(result) : result,
\* then a property of it is read: the parse throws for a text that is not
\* JSON, the read throws for null.
ProjectionThrows(r) == r \in {"string", "null"}

\* The summary leaves the skipped steps out.
GenerateSummary_NoSkipped ==
    [totalSteps |-> Len(plan.steps),
     completed |-> Cardinality({j \in DOMAIN status : status[j] = "completed"}),
     failed |-> Cardinality({j \in DOMAIN status : status[j] = "failed"}),
     skipped |-> 0,
     aborted |-> aborted]

\* part_005:217-229
GenerateSummary ==
    [totalSteps |-> Len(plan.steps),
     completed |-> Cardinality({j \in DOMAIN status : status[j] = "completed"}),
     failed |-> Cardinality({j \in DOMAIN status : status[j] = "failed"}),
     skipped |-> Cardinality({j \in DOMAIN status : status[j] = "skipped"}),
     aborted |-> aborted]

EngineStart(plans) ==
    /\ plan \in plans
    /\ stopOnFailure \in BOOLEAN
    /\ status = [j \in DOMAIN plan.steps |-> "pending"]
    /\ stepError = [j \in DOMAIN plan.steps |-> "none"]
    /\ aborted = FALSE
    /\ stepIdx = 1
    /\ condIdx = 0
    /\ epc = "loop"
    /\ result = "none"
    /\ executionState = {}
    /\ summary = NoSummary
    /\ condLog = [j \in DOMAIN plan.steps |-> <<>>]
    /\ invoked = [j \in DOMAIN plan.steps |-> 0]
    /\ abortedAt = 0
    /\ runs = 1
    /\ clears = 0
    /\ runKeys = {}
    /\ holds = {}

EngineInit == EngineStart(Plans)

\* The catch moves on without recording the failure on the step.
CatchStep_KeepsStatus(why) ==
    /\ UNCHANGED <<status, stepError, aborted, abortedAt>>
    /\ stepIdx' = stepIdx + 1
    /\ condIdx' = 0
    /\ epc' = "loop"
    /\ result' = "none"

\* The catch hands the step back to the loop head, which tries it again.
CatchStep_Retry(why) ==
    /\ UNCHANGED <<status, stepError, aborted, abortedAt, stepIdx>>
    /\ condIdx' = 0
    /\ epc' = "loop"
    /\ result' = "none"

\* part_005:111-125  catch: the step is failed; a high or critical step aborts.
CatchStep(why) ==
    /\ status' = [status EXCEPT ![stepIdx] = "failed"]
    /\ stepError' = [stepError EXCEPT ![stepIdx] = why]
    /\ IF ShouldAbortOnFailure(plan.steps[stepIdx], stopOnFailure)
       THEN aborted' = TRUE /\ abortedAt' = stepIdx
       ELSE UNCHANGED <<aborted, abortedAt>>
    /\ stepIdx' = stepIdx + 1
    /\ condIdx' = 0
    /\ epc' = "loop"
    /\ result' = "none"

\* part_005:96-99  await this.mcpClient.callTool(step.toolName, step.parameters)
InvokeTool ==
    /\ invoked' = [invoked EXCEPT ![stepIdx] = @ + 1]
    /\ epc' = "callTool"
    /\ condIdx' = 0

\* part_005:49-65, 145-147  the loop reads step i.  Once aborted it is marked
\* skipped.  Otherwise it is in progress and its conditions are evaluated: a
\* step without conditions goes on to its tool.
LoopStep ==
    /\ UNCHANGED <<nonceVars, planVars, mixVars, checkVars, evalVars>>
    /\ epc = "loop"
    /\ stepIdx <= Len(plan.steps)
    /\ IF SkipsAborted
       THEN /\ status' = [status EXCEPT ![stepIdx] = "skipped"]
            /\ stepError' = [stepError EXCEPT ![stepIdx] = "aborted"]
            /\ stepIdx' = stepIdx + 1
            /\ UNCHANGED <<condIdx, epc, invoked>>
       ELSE /\ status' = [status EXCEPT ![stepIdx] = "in_progress"]
            /\ IF plan.steps[stepIdx].numConds = 0
               THEN InvokeTool
               ELSE epc' = "evalCond" /\ condIdx' = 1 /\ UNCHANGED invoked
            /\ UNCHANGED <<stepError, stepIdx>>
    /\ UNCHANGED <<plan, stopOnFailure, aborted, result, executionState,
                   summary, condLog, abortedAt, runs, clears, runKeys, holds>>

\* condition-evaluator.ts:65-75  a custom condition reads its field from
\* executionState and is not met when the field is not there; otherwise the
\* comparison decides.  An external condition is decided outside.
CondAnswers(step) ==
    IF step.condKind = "custom" /\ CustomField \notin executionState
    THEN {FALSE}
    ELSE BOOLEAN

\* part_005:158-165  only a market condition can come with market data.
MarketAnswers(step) ==
    IF step.condKind = "custom" THEN {FALSE} ELSE BOOLEAN

\* ------------------------------------------------- the condition evaluators
\* part_012:115, 136, part_005:158
ValidConditionTypes ==
    {"balance_check", "price_check", "volatility_check", "trend_check", "custom"}
MarketConditionTypes == {"price_check", "volatility_check", "trend_check"}

\* What an evaluation returns to the engine, with whether it connected the
\* market client and what it had observed:
\* "clear" data, "ambiguous" data (a value missing or not a number),
\* "unusable" data, a query that "failed", a collaborator that is
\* "unreachable", a field that is "absent", or an answer from "outside".
EvalResult(met, reason, observed, marketData, isConnected, didConnect) ==
    [met |-> met, reason |-> reason, observed |-> observed,
     marketData |-> marketData, connected |-> isConnected,
     didConnect |-> didConnect, change |-> "none", actualValue |-> NaN]

\* condition-evaluator.ts:89-109  the JavaScript comparisons: with NaN on
\* either side >, <, ===, >= and <= are false and !== is true.
compareValues(actual, operator, expected) ==
    LET numbers == ~actual.nan /\ ~expected.nan
    IN  CASE operator = "gt" -> numbers /\ actual.num > expected.num
          [] operator = "lt" -> numbers /\ actual.num < expected.num
          [] operator = "eq" -> numbers /\ actual.num = expected.num
          [] operator = "neq" -> ~(numbers /\ actual.num = expected.num)
          [] operator = "gte" -> numbers /\ actual.num >= expected.num
          [] operator = "lte" -> numbers /\ actual.num <= expected.num
          [] OTHER -> FALSE

\* market-condition-evaluator.ts:176, 178  the 0.0001 of eq and neq.
Epsilon == PerUnit \div 10000

\* market-condition-evaluator.ts:169-186  eq and neq go through
\* Math.abs(actual - expected), which NaN makes false for both.
marketCompareValues(actual, operator, expected) ==
    LET numbers == ~actual.nan /\ ~expected.nan
        distance == IF actual.num < expected.num
                    THEN expected.num - actual.num
                    ELSE actual.num - expected.num
    IN  CASE operator = "gt" -> numbers /\ actual.num > expected.num
          [] operator = "lt" -> numbers /\ actual.num < expected.num
          [] operator = "eq" -> numbers /\ distance < Epsilon
          [] operator = "neq" -> numbers /\ distance >= Epsilon
          [] operator = "gte" -> numbers /\ actual.num >= expected.num
          [] operator = "lte" -> numbers /\ actual.num <= expected.num
          [] OTHER -> FALSE

\* condition-evaluator.ts:41-43, part_003:128-171  what callTool('getBalance')
\* gives: it raises, or returns a text that is not JSON, null, or an object
\* whose balance is a number text, another text, or missing.
BalanceAnswers ==
    [kind : {"raise", "text", "null"}, balance : {MissingValue}]
        \cup [kind : {"data"},
              balance : {"0", "50", "50.00005", "1000", "n/a", MissingValue}]

\* A ledger query that raises counts as a balance that meets the requirement.
evaluateBalanceCheck_Lenient(step, answer) ==
    EvalResult(TRUE, "Balance meets requirement",
               IF answer.kind = "raise" THEN "failed" ELSE "clear",
               FALSE, connected, FALSE)

\* condition-evaluator.ts:34-63, 26-31  a balance_check: JSON.parse of a text
\* and the read of null.balance raise into evaluate's catch, like the call.
evaluateBalanceCheck(step, answer) ==
    IF answer.kind # "data"
    THEN EvalResult(FALSE,
                    IF answer.kind = "raise"
                    THEN "Condition evaluation error: Tool execution failed"
                    ELSE "Condition evaluation error: cannot read the result",
                    IF answer.kind = "raise" THEN "failed" ELSE "unusable",
                    FALSE, connected, FALSE)
    ELSE LET actualBalance == ParseFloat(answer.balance)
             requiredBalance == ParseFloat(step.value)
             met == compareValues(actualBalance, step.operator, requiredBalance)
         IN  [EvalResult(met,
                         IF met THEN "Balance meets requirement"
                         ELSE "Insufficient balance",
                         IF actualBalance.nan THEN "ambiguous" ELSE "clear",
                         FALSE, connected, FALSE)
                 EXCEPT !.actualValue = actualBalance]

\* part_010:49-52, market-condition-evaluator.ts:32  the market collaborator:
\* it cannot be reached, it answers the price query with an error, or with a
\* quote whose price and 24h change are number texts or missing.
MarketWorlds ==
    [link : {"down", "error"}, price : {MissingValue}, change : {MissingValue}]
        \cup [link : {"up"}, price : {"0", "50.00005", "1000", MissingValue},
              change : {"-5", "-3", "-2", "0", "2", "3", "50", MissingValue}]

\* part_010:54-60  getPrice: price is parseFloat(result.price || '0') and
\* change24h is undefined when the quote has none.
getPrice(world) ==
    [price |-> ParseFloat(IF world.price = MissingValue THEN "0" ELSE world.price),
     hasChange |-> world.change # MissingValue,
     change24h |-> ParseFloat(world.change)]

\* The bands include their edges: a change of 2 is bullish, of -2 bearish.
getMarketTrend_Inclusive(world) ==
    LET priceChange == IF getPrice(world).hasChange
                       THEN getPrice(world).change24h.num ELSE 0
    IN  IF priceChange >= 2 * PerUnit THEN "bullish"
        ELSE IF priceChange <= 0 - 2 * PerUnit THEN "bearish" ELSE "neutral"

\* part_010:87-99, 78-85  getMarketTrend over getPriceChange, which is
\* change24h || 0.
getMarketTrend(world) ==
    LET priceChange == IF getPrice(world).hasChange
                       THEN getPrice(world).change24h.num ELSE 0
    IN  IF priceChange > 2 * PerUnit THEN "bullish"
        ELSE IF priceChange < 0 - 2 * PerUnit THEN "bearish" ELSE "neutral"

\* market-condition-evaluator.ts:152  String(condition.value).toLowerCase()
ToLowerCase(text) ==
    CASE text = "Bullish" -> "bullish"
      [] OTHER -> text

\* The evaluator connects for every evaluation.
NeedsConnect_Always(isConnected) == TRUE

\* market-condition-evaluator.ts:30  if (!this.connected)
NeedsConnect(isConnected) == ~isConnected

\* market-condition-evaluator.ts:29-38, 51-167  evaluate: connect unless
\* connected, then the price, volatility or trend evaluation, any error of
\* which is turned into a result.  The answer is kept with the 24h change of
\* the quote it was computed from.
marketEvaluate(step, world) ==
    LET answer ==
        IF NeedsConnect(connected) /\ world.link = "down"
        THEN EvalResult(FALSE,
                        "Cannot evaluate market condition: Failed to connect",
                        "unreachable", FALSE, connected, FALSE)
        ELSE IF world.link # "up"
        THEN EvalResult(FALSE,
                        "Market condition evaluation failed: Tool execution failed",
                        IF world.link = "down" THEN "unreachable" ELSE "failed",
                        FALSE, TRUE, NeedsConnect(connected))
        ELSE LET lacks == IF step.condKind = "price_check"
                          THEN world.price = MissingValue
                          ELSE world.change = MissingValue
                 observed == IF lacks THEN "ambiguous" ELSE "clear"
                 expected == ParseFloat(step.value)
             IN  CASE step.condKind = "price_check" ->
                        LET met == marketCompareValues(getPrice(world).price,
                                                       step.operator, expected)
                        IN  [EvalResult(met,
                                        IF met THEN "price meets the condition"
                                        ELSE "price does not meet condition",
                                        observed, TRUE, TRUE, NeedsConnect(connected))
                                EXCEPT !.actualValue = getPrice(world).price]
                   [] step.condKind = "volatility_check" ->
                        IF ~getPrice(world).hasChange
                        THEN EvalResult(FALSE,
                                 "Market condition evaluation failed: Unable to calculate volatility",
                                 observed, FALSE, TRUE, NeedsConnect(connected))
                        ELSE LET change == getPrice(world).change24h.num
                                 volatility ==
                                     Number(IF change < 0 THEN 0 - change ELSE change)
                                 met == marketCompareValues(volatility,
                                                            step.operator, expected)
                             IN  [EvalResult(met,
                                             IF met THEN "volatility meets the condition"
                                             ELSE "volatility does not meet condition",
                                             observed, TRUE, TRUE, NeedsConnect(connected))
                                     EXCEPT !.actualValue = volatility]
                   [] OTHER ->
                        LET met == getMarketTrend(world) = ToLowerCase(step.value)
                        IN  EvalResult(met,
                                       IF met THEN "trend matches expected"
                                       ELSE "trend is not the expected one",
                                       observed, TRUE, TRUE, NeedsConnect(connected))
    IN  [answer EXCEPT !.change = world.change]

\* condition-evaluator.ts:65-87  a custom condition whose field is in the
\* execution state is decided by the comparison with the stored value.
evaluateCustomCondition(step, met) ==
    IF CustomField \notin executionState
    THEN EvalResult(FALSE, "Field not found in execution state", "absent",
                    FALSE, connected, FALSE)
    ELSE EvalResult(met,
                    IF met THEN "Condition met" ELSE "Condition not met",
                    "clear", FALSE, connected, FALSE)

\* part_005:155-172  the results an evaluation of a condition of the step can
\* return to the engine.
EvaluateResults(step) ==
    CASE step.condKind = "balance_check" ->
            {evaluateBalanceCheck(step, answer) : answer \in BalanceAnswers}
      [] step.condKind \in MarketConditionTypes ->
            {marketEvaluate(step, world) : world \in MarketWorlds}
      [] step.condKind = "custom" ->
            {evaluateCustomCondition(step, met) : met \in CondAnswers(step)}
      [] OTHER ->
            {EvalResult(met, IF met THEN "met" ELSE "condition", "outside",
                        marketData, connected, FALSE) :
                met \in CondAnswers(step), marketData \in MarketAnswers(step)}

\* The projection stores the other field of the result under each key.
ProjectedField_Swapped(key) ==
    CASE key[1] = "step_result" -> "result"
      [] key[1] = "step_status" -> "status"
      [] key[1] = "current_balance" -> "symbol"
      [] key[1] = "balance_symbol" -> "balance"
      [] key[1] = "last_tx_hash" -> "amount"
      [] key[1] = "last_transfer_amount" -> "txHash"
      [] OTHER -> "marketData"

\* part_005:191-203, 164  what is stored under a key: the result itself, the
\* step's status, or a field of the (parsed) result.
ProjectedField(key) ==
    CASE key[1] = "step_result" -> "result"
      [] key[1] = "step_status" -> "status"
      [] key[1] = "current_balance" -> "balance"
      [] key[1] = "balance_symbol" -> "symbol"
      [] key[1] = "last_tx_hash" -> "txHash"
      [] key[1] = "last_transfer_amount" -> "amount"
      [] OTHER -> "marketData"

\* Map.set: a key holds what was stored under it last.
Store(keys, step) ==
    {h \in holds : h.key \notin keys}
        \cup {[key |-> k, from |-> step, field |-> ProjectedField(k)] : k \in keys}

\* Every evaluation takes the first declared condition of the step.
ConditionAt_First(step, k) == step

\* part_005:155  for (const condition of step.conditions): the k-th declared
\* condition of the step.
ConditionAt(step, k) ==
    IF k > 1 /\ "then" \in DOMAIN step
    THEN [step EXCEPT !.condKind = step.then]
    ELSE step

\* part_005:155-187, 67-83  the evaluator answers for condition k (it never
\* throws); a market condition may come with market data, which is stored.
\* Not met: the step is skipped and a high or critical step aborts.  Met: the
\* next condition, or the tool after the last one.
CondReturn ==
    /\ UNCHANGED <<nonceVars, planVars, mixVars, checkVars>>
    /\ epc = "evalCond"
    /\ \E res \in EvaluateResults(ConditionAt(plan.steps[stepIdx], condIdx)) :
          /\ condLog' = [condLog EXCEPT ![stepIdx] = Append(@, res.met)]
          /\ connects' = IF res.didConnect THEN connects + 1 ELSE connects
          /\ connected' = res.connected
          /\ lastEval' = [step |-> stepIdx, cond |-> condIdx,
                          kind |-> ConditionAt(plan.steps[stepIdx], condIdx).condKind,
                          met |-> res.met, reason |-> res.reason,
                          observed |-> res.observed, change |-> res.change,
                          actualValue |-> res.actualValue]
          /\ executionState' = IF res.marketData
                               THEN executionState \cup {<<"market", 0>>}
                               ELSE executionState
          /\ runKeys' = IF res.marketData
                        THEN runKeys \cup {<<"market", 0>>}
                        ELSE runKeys
          /\ holds' = IF res.marketData
                      THEN Store({<<"market", 0>>}, 0)
                      ELSE holds
          /\ IF ConditionFails(res.met)
             THEN /\ status' = [status EXCEPT ![stepIdx] = "skipped"]
                  /\ stepError' = [stepError EXCEPT ![stepIdx] = res.reason]
                  /\ IF ShouldAbortOnSkip(plan.steps[stepIdx], stopOnFailure)
                     THEN aborted' = TRUE /\ abortedAt' = stepIdx
                     ELSE UNCHANGED <<aborted, abortedAt>>
                  /\ stepIdx' = stepIdx + 1
                  /\ condIdx' = 0
                  /\ epc' = "loop"
                  /\ UNCHANGED invoked
             ELSE /\ IF condIdx < plan.steps[stepIdx].numConds
                     THEN condIdx' = condIdx + 1 /\ UNCHANGED <<epc, invoked>>
                     ELSE InvokeTool
                  /\ UNCHANGED <<status, stepError, aborted, abortedAt, stepIdx>>
    /\ UNCHANGED <<plan, stopOnFailure, result, summary, runs, clears>>

\* part_005:96-102, 111-125  callTool returns: the result is kept and the step
\* is completed.  Or it raises: the step is failed.
ToolReturn ==
    /\ UNCHANGED <<nonceVars, planVars, mixVars, checkVars, evalVars>>
    /\ epc = "callTool"
    /\ \E r \in Outcomes(plan.steps[stepIdx].toolName) :
          IF r = "raise"
          THEN CatchStep("operation")
          ELSE /\ result' = r
               /\ status' = [status EXCEPT ![stepIdx] = "completed"]
               /\ epc' = "updateState"
               /\ UNCHANGED <<stepError, aborted, abortedAt, stepIdx, condIdx>>
    /\ UNCHANGED <<plan, stopOnFailure, executionState, summary, condLog,
                   invoked, runs, clears, runKeys, holds>>

\* part_005:191-203  the keys updateExecutionState sets: the step's result
\* and status, then, unless the projection throws, what it projects.
StateWritten ==
    {<<"step_result", stepIdx>>, <<"step_status", stepIdx>>}
        \cup (IF ProjectionThrows(result) THEN {}
              ELSE IF plan.steps[stepIdx].toolName = "getBalance"
                   THEN {<<"current_balance", 0>>, <<"balance_symbol", 0>>}
                   ELSE {<<"last_tx_hash", 0>>, <<"last_transfer_amount", 0>>})

\* part_005:104, 190-205  updateExecutionState, still inside the try: the
\* result and status of the step are stored, then a getBalance or
\* transferToken result is projected, which may throw into the catch.
UpdateState ==
    /\ UNCHANGED <<nonceVars, planVars, mixVars, checkVars, evalVars>>
    /\ epc = "updateState"
    /\ executionState' = executionState \cup StateWritten
    /\ runKeys' = runKeys \cup StateWritten
    /\ holds' = Store(StateWritten, stepIdx)
    /\ UNCHANGED <<runs, clears>>
    /\ IF ProjectionThrows(result)
       THEN CatchStep("projection")
       ELSE /\ stepIdx' = stepIdx + 1
            /\ epc' = "loop"
            /\ result' = "none"
            /\ UNCHANGED <<status, stepError, aborted, abortedAt, condIdx>>
    /\ UNCHANGED <<plan, stopOnFailure, summary, condLog, invoked>>

\* part_005:128-138  after the last step the summary is computed and returned.
Finish ==
    /\ UNCHANGED <<nonceVars, planVars, mixVars, checkVars, evalVars>>
    /\ epc = "loop"
    /\ stepIdx > Len(plan.steps)
    /\ summary' = GenerateSummary
    /\ epc' = "done"
    /\ UNCHANGED <<plan, stopOnFailure, status, stepError, aborted, stepIdx, condIdx,
                   result, executionState, condLog, invoked, abortedAt,
                   runs, clears, runKeys, holds>>

EngineNext ==
    \/ LoopStep
    \/ CondReturn
    \/ ToolReturn
    \/ UpdateState
    \/ Finish

\* ------------------------------------------- several runs on one engine
\* A new engine for every run.
StateAtRunStart_Fresh == {}

\* part_005:29-47  execute does not touch executionState before the loop: a
\* run starts with what the engine holds.
StateAtRunStart == executionState

\* part_011:57-66, part_005:36-47  the caller runs another plan on the same
\* engine after the previous run returned.
ExecuteAgain ==
    /\ UNCHANGED <<nonceVars, planVars, mixVars, checkVars, evalVars>>
    /\ epc = "done"
    /\ runs < MaxRuns
    /\ plan' \in RunPlans
    /\ stopOnFailure' \in BOOLEAN
    /\ status' = [j \in DOMAIN plan'.steps |-> "pending"]
    /\ stepError' = [j \in DOMAIN plan'.steps |-> "none"]
    /\ aborted' = FALSE
    /\ stepIdx' = 1
    /\ condIdx' = 0
    /\ epc' = "loop"
    /\ result' = "none"
    /\ executionState' = StateAtRunStart
    /\ summary' = NoSummary
    /\ condLog' = [j \in DOMAIN plan'.steps |-> <<>>]
    /\ invoked' = [j \in DOMAIN plan'.steps |-> 0]
    /\ abortedAt' = 0
    /\ runs' = runs + 1
    /\ runKeys' = {}
    /\ holds' = {[h EXCEPT !.from = 0] : h \in holds}
    /\ UNCHANGED clears

\* part_005:266-268, part_011:75-79  clearExecutionState: callable whenever
\* the engine is not in the middle of a synchronous stretch.
ClearExecutionState ==
    /\ UNCHANGED <<nonceVars, planVars, mixVars, checkVars, evalVars>>
    /\ epc \in {"loop", "evalCond", "callTool", "done"}
    /\ clears < MaxClears
    /\ executionState' = {}
    /\ holds' = {}
    /\ clears' = clears + 1
    /\ UNCHANGED <<plan, stopOnFailure, status, stepError, aborted, stepIdx,
                   condIdx, epc, result, summary, condLog, invoked, abortedAt,
                   runs, runKeys>>

RunsInit == EngineInit /\ plan \in RunPlans

RunsNext ==
    \/ LoopStep
    \/ CondReturn
    \/ ToolReturn
    \/ UpdateState
    \/ Finish
    \/ ExecuteAgain
    \/ ClearExecutionState

\* ------------------------------------------ PlanningOrchestrator.createPlan
\* The tool lists a caller may pass.
ToolLists == {RegisteredTools, {"getBalance"}}

\* createPlan returns the draft whatever its validation says.
PlanRejected_Never(validation) == FALSE

\* part_013:38  if (!validation.valid)
PlanRejected(validation) == ~validation.valid

PlanInit ==
    /\ validatorTools = NoTools
    /\ callTools = NoTools
    /\ cpc = "idle"
    /\ created = NoPlan

\* part_013:22-24
InitializeValidator ==
    /\ UNCHANGED <<nonceVars, engineVars, mixVars, checkVars, evalVars>>
    /\ cpc = "idle"
    /\ \E tools \in ToolLists : validatorTools' = tools
    /\ UNCHANGED <<callTools, cpc, created>>

\* part_013:30-32  if (!this.planValidator) this.initializeValidator(availableTools)
ValidatorAfterCreatePlan(availableTools) ==
    IF validatorTools = NoTools THEN availableTools ELSE validatorTools

\* part_013:26-34  createPlan builds the validator if there is none yet, then
\* awaits the plan generator.
CreatePlanCall ==
    /\ UNCHANGED <<nonceVars, engineVars, mixVars, checkVars, evalVars>>
    /\ cpc = "idle"
    /\ \E availableTools \in ToolLists :
          /\ callTools' = availableTools
          /\ validatorTools' = ValidatorAfterCreatePlan(availableTools)
    /\ cpc' = "generating"
    /\ created' = NoPlan

\* part_013:34-44  the generator returns a draft (or raises); the draft is
\* validated; an invalid draft makes createPlan throw, a valid one is
\* returned with its validation.
GeneratePlanReturn ==
    /\ UNCHANGED <<nonceVars, engineVars, mixVars, checkVars, evalVars>>
    /\ cpc = "generating"
    /\ \E ok \in BOOLEAN, draft \in Plans :
          LET validation == Validate(draft, validatorTools)
          IN  IF ok /\ ~PlanRejected(validation)
              THEN /\ cpc' = "returned"
                   /\ created' = [plan |-> draft, validation |-> validation]
              ELSE /\ cpc' = "threw"
                   /\ created' = NoPlan
    /\ UNCHANGED <<validatorTools, callTools>>

\* The caller makes another createPlan call on the same orchestrator.
CreatePlanAgain ==
    /\ UNCHANGED <<nonceVars, engineVars, mixVars, checkVars, evalVars>>
    /\ cpc \in {"returned", "threw"}
    /\ cpc' = "idle"
    /\ created' = NoPlan
    /\ UNCHANGED <<validatorTools, callTools>>

PlanNext ==
    \/ InitializeValidator
    \/ CreatePlanCall
    \/ GeneratePlanReturn
    \/ CreatePlanAgain

\* ------------------------------------------------- PlanValidator.validate
\* part_012:146, 151  the step-count and transfer-count ceilings.
StepCeiling == 10
TransferCeiling == 3

\* part_012:94  the large-transfer threshold.
LargeTransfer == 1000

\* An amount as the proposer gives it: a string, a number, or nothing.
Amounts ==
    [type : {"string"}, text : {"abc", "0", "-5", "50", "1000", "5000"}]
        \cup {[type |-> "number", text |-> "50"],
              [type |-> "undefined", text |-> MissingValue]}

\* A recipient as the proposer gives it: a 20-byte hex address, a string that
\* only begins like one, a name, or nothing.
AddressText == "0x8ba1f109551bD432803012645Ac136ddd64DBA72"
Recipients ==
    {[type |-> "string", text |-> AddressText],
     [type |-> "string", text |-> "0xbob"],
     [type |-> "string", text |-> "bob"],
     [type |-> "undefined", text |-> MissingValue]}

\* part_012:84  to.startsWith('0x')
StartsWith0x(text) == text \in {AddressText, "0xbob"}

\* part_012:63, 82  step.parameters: an object with `to` and `amount`, or
\* nothing at all.
GoodParameters ==
    [shape |-> "object",
     to |-> [type |-> "string", text |-> AddressText],
     amount |-> [type |-> "string", text |-> "50"]]
NoParameters ==
    [shape |-> "undefined",
     to |-> [type |-> "undefined", text |-> MissingValue],
     amount |-> [type |-> "undefined", text |-> MissingValue]]

\* types.ts:25-32  a condition of a draft step.
GoodCondition(type) ==
    [type |-> type, field |-> "balance", operator |-> "gte", value |-> "10",
     symbol |-> IF type = "price_check" THEN "CRO" ELSE MissingValue]
DraftConditions ==
    {GoodCondition(t) : t \in {"balance_check", "price_check", "custom", "bogus"}}
        \cup {[GoodCondition("price_check") EXCEPT !.symbol = MissingValue],
              [GoodCondition("balance_check") EXCEPT !.operator = MissingValue],
              [GoodCondition("custom") EXCEPT !.field = MissingValue],
              [GoodCondition("custom") EXCEPT !.value = MissingValue]}

\* types.ts:34-46  a step of a draft; `entry` tells an object from a null
\* entry of the steps array.
GoodStep(tool, risk, conds) ==
    [entry |-> "object", id |-> "step", toolName |-> tool, action |-> "act",
     parameters |-> GoodParameters, riskLevel |-> risk, conditions |-> conds]
NullStep ==
    [GoodStep(MissingValue, MissingValue, <<>>) EXCEPT
        !.entry = "null", !.id = MissingValue, !.action = MissingValue,
        !.parameters = NoParameters]

\* types.ts:48-61  a draft plan; `stepsShape` tells an array from a missing
\* field and from a value that is not an array.
GoodPlan(steps, overall) ==
    [id |-> "plan", intent |-> "pay", normalizedIntent |-> "pay",
     stepsShape |-> "array", steps |-> steps, overallRiskLevel |-> overall]

\* --- the drafts validate is called with
MaxLongSteps == 11
MaxMixedSteps == 2

\* The drafts: one-step drafts in which the fields of the plan and of the
\* step vary; one-step drafts of a low-risk transferToken step in which the
\* parameters vary; drafts of well-formed steps that differ in tool, risk
\* level and guard; long drafts of plain getBalance and transferToken steps;
\* and drafts whose steps field is missing or is not an array, whose array
\* has a null entry, or whose header fields are missing.
Drafts ==
    LET FieldDrafts ==
            {[GoodPlan(<<[GoodStep(tool, risk, conds) EXCEPT
                              !.id = stepId, !.parameters = params]>>, overall)
                 EXCEPT !.id = planId] :
                tool \in RegisteredTools \cup {UnknownTool, MissingValue},
                risk \in RiskLevels \cup {"bogus"},
                conds \in {<<>>} \cup {<<c>> : c \in DraftConditions},
                stepId \in {"step", MissingValue},
                params \in {GoodParameters, NoParameters},
                overall \in RiskLevels \cup {MissingValue},
                planId \in {"plan", MissingValue}}
        TransferDrafts ==
            {GoodPlan(<<[GoodStep("transferToken", "low", conds) EXCEPT
                             !.parameters = params]>>, "low") :
                conds \in {<<>>, <<GoodCondition("balance_check")>>},
                params \in [shape : {"object"}, to : Recipients, amount : Amounts]}
        MixedSteps ==
            {GoodStep(tool, risk, conds) :
                tool \in RegisteredTools, risk \in RiskLevels,
                conds \in {<<>>, <<GoodCondition("balance_check")>>}}
        MixedDrafts ==
            {GoodPlan(steps, overall) :
                steps \in UNION {[1..n -> MixedSteps] : n \in 1..MaxMixedSteps},
                overall \in RiskLevels}
        LongDrafts ==
            {GoodPlan(steps, "low") :
                steps \in UNION {[1..n -> {GoodStep(tool, "low", <<>>) :
                                              tool \in RegisteredTools}] :
                                    n \in 0..MaxLongSteps}}
        MalformedDrafts ==
            {[GoodPlan(<<>>, "low") EXCEPT !.stepsShape = shape] :
                shape \in {"undefined", "string"}}
            \cup {GoodPlan(<<NullStep>>, "low"),
                  GoodPlan(<<GoodStep("getBalance", "low", <<>>), NullStep>>, "low"),
                  [GoodPlan(<<GoodStep("getBalance", "low", <<>>)>>, "low")
                      EXCEPT !.intent = MissingValue,
                             !.normalizedIntent = MissingValue],
                  GoodPlan(<<[GoodStep("getBalance", "low", <<>>)
                                 EXCEPT !.action = MissingValue]>>, "low")}
    IN  FieldDrafts \cup TransferDrafts \cup MixedDrafts \cup LongDrafts
            \cup MalformedDrafts

\* --- the check groups
\* An entry of the errors or warnings list: the message, the step and the
\* condition it is about (0 for none), and what the message quotes.
Entry(message, step, cond, detail) ==
    [message |-> message, step |-> step, cond |-> cond, detail |-> detail]

\* part_012:29-31  if (...) { errors.push(...) }
When(test, entry) == IF test THEN {entry} ELSE {}

\* part_012:28-44
validateSchema(p) ==
    When(p.id = MissingValue, Entry("Plan must have a valid id", 0, 0, ""))
    \cup When(p.intent = MissingValue,
              Entry("Plan must have a valid intent", 0, 0, ""))
    \cup When(p.normalizedIntent = MissingValue,
              Entry("Plan must have a normalized intent", 0, 0, ""))
    \cup When(p.stepsShape # "array" \/ Len(p.steps) = 0,
              Entry("Plan must have at least one step", 0, 0, ""))
    \cup When(p.overallRiskLevel \notin RiskLevels,
              Entry("Plan must have a valid overall risk level", 0, 0, ""))

\* part_012:76-98  the checks of a transferToken step whose parameters are an
\* object.
validateTransferStep(step, j) ==
    LET to == step.parameters.to
        amount == step.parameters.amount
        badAmount == amount.type # "string" \/ amount.text = ""
        amountNum == ParseFloat(amount.text)
    IN  [errors |->
            When(to.type # "string" \/ ~StartsWith0x(to.text),
                 Entry("Invalid recipient address", j, 0, ""))
            \cup When(badAmount, Entry("Invalid amount", j, 0, ""))
            \cup When(~badAmount /\ (amountNum.nan \/ amountNum.num <= 0),
                      Entry("Amount must be a positive number", j, 0, "")),
         warnings |->
            When(~badAmount /\ ~amountNum.nan /\ amountNum.num > LargeTransfer * PerUnit,
                 Entry("Large transfer amount", j, 0, amount.text))]

\* part_012:49-52, 70-71, 82  what makes the walk over the steps raise a
\* TypeError: steps that cannot be walked, an entry that is null, and the
\* destructuring of the parameters of a transferToken step that has none.
StepsThrow(p) ==
    \/ p.stepsShape # "array"
    \/ \E j \in DOMAIN p.steps :
          \/ p.steps[j].entry = "null"
          \/ /\ p.steps[j].toolName = "transferToken"
             /\ p.steps[j].parameters.shape # "object"

\* Every name is taken for a registered one.
HasTool_Any(tools, name) == TRUE

\* part_012:47, 57  toolNames.has(step.toolName)
HasTool(tools, name) == name \in tools

\* part_012:46-74  the checks of every step, for steps that can be walked.
validateSteps(p, tools) ==
    LET StepErrors(j) ==
            LET step == p.steps[j]
            IN  When(step.id = MissingValue,
                     Entry("Missing or invalid step id", j, 0, ""))
                \cup When(step.toolName = MissingValue,
                          Entry("Missing tool name", j, 0, ""))
                \cup When(step.toolName # MissingValue /\ ~HasTool(tools, step.toolName),
                          Entry("Unknown tool", j, 0, step.toolName))
                \cup When(step.action = MissingValue,
                          Entry("Missing action description", j, 0, ""))
                \cup When(step.parameters.shape # "object",
                          Entry("Missing or invalid parameters", j, 0, ""))
                \cup When(step.riskLevel \notin RiskLevels,
                          Entry("Invalid risk level", j, 0, ""))
        Transfers == {j \in DOMAIN p.steps : p.steps[j].toolName = "transferToken"}
    IN  [errors |->
            UNION {StepErrors(j) : j \in DOMAIN p.steps}
            \cup UNION {validateTransferStep(p.steps[j], j).errors : j \in Transfers},
         warnings |->
            UNION {validateTransferStep(p.steps[j], j).warnings : j \in Transfers}]

\* part_012:166-171  priority[level]; a level that is none of the four has no
\* priority, and no comparison with it holds: 0 is never the greater one.
Priority(level) ==
    CASE level = "critical" -> 4
      [] level = "high" -> 3
      [] level = "medium" -> 2
      [] level = "low" -> 1
      [] OTHER -> 0

\* The last of the levels, whatever the others are.
getHighestRiskLevel_Last(levels) ==
    IF levels = <<>> THEN "low" ELSE levels[Len(levels)]

\* part_012:173-175  levels.reduce(..., RiskLevel.LOW), from the left.
RECURSIVE ReduceHighest(_, _, _)
ReduceHighest(levels, n, highest) ==
    IF n > Len(levels) THEN highest
    ELSE ReduceHighest(levels, n + 1,
                       IF Priority(levels[n]) > Priority(highest)
                       THEN levels[n] ELSE highest)

\* part_012:165-176
getHighestRiskLevel(levels) == ReduceHighest(levels, 1, "low")

\* part_012:100-112  warnings only.
validateRiskLevels(p) ==
    LET highestRisk ==
            getHighestRiskLevel([j \in DOMAIN p.steps |-> p.steps[j].riskLevel])
    IN  When(highestRisk # p.overallRiskLevel,
             Entry("Overall risk level doesn't match highest step risk", 0, 0,
                   highestRisk))
        \cup When(p.overallRiskLevel = "critical",
                  Entry("CRITICAL risk operation - requires manual review", 0, 0, ""))

\* part_012:114-143  errors only.
validateConditions(p) ==
    LET CondErrors(j, k) ==
            LET condition == p.steps[j].conditions[k]
            IN  When(condition.type \notin ValidConditionTypes,
                     Entry("Invalid condition type", j, k, condition.type))
                \cup When(condition.field = MissingValue,
                          Entry("Missing condition field", j, k, ""))
                \cup When(condition.operator = MissingValue,
                          Entry("Missing condition operator", j, k, ""))
                \cup When(condition.value = MissingValue,
                          Entry("Missing condition value", j, k, ""))
                \cup When(/\ condition.type \in MarketConditionTypes
                          /\ condition.symbol = MissingValue,
                          Entry("Market condition requires 'symbol' field", j, k, ""))
    IN  UNION {UNION {CondErrors(j, k) : k \in DOMAIN p.steps[j].conditions} :
                  j \in DOMAIN p.steps}

\* part_012:155-157  some step of the plan has a balance_check condition.
hasBalanceCheck(p) ==
    \E j \in DOMAIN p.steps :
        \E k \in DOMAIN p.steps[j].conditions :
            p.steps[j].conditions[k].type = "balance_check"

\* part_012:145-163  warnings only.
sanityChecks(p) ==
    LET transferSteps ==
            {j \in DOMAIN p.steps : p.steps[j].toolName = "transferToken"}
    IN  When(Len(p.steps) > StepCeiling,
             Entry("Plan has many steps - consider breaking into smaller operations",
                   0, 0, ""))
        \cup When(Cardinality(transferSteps) > TransferCeiling,
                  Entry("Plan includes many transfers - verify this is intentional",
                        0, 0, ""))
        \cup When(transferSteps # {} /\ ~hasBalanceCheck(p),
                  Entry("Transfer operation without balance check condition",
                        0, 0, ""))

\* A plan with a warning is not valid either.
IsValid_NoWarnings(errors, warnings) == errors = {} /\ warnings = {}

\* part_012:22  valid: errors.length === 0
IsValid(errors, warnings) == errors = {}

\* part_012:11-26  the five groups run one after the other on the same two
\* lists; the walk over the steps may raise, and then validate returns nothing.
validate(p, tools) ==
    IF StepsThrow(p)
    THEN [threw |-> TRUE, valid |-> FALSE, errors |-> {}, warnings |-> {}]
    ELSE LET steps == validateSteps(p, tools)
             errors == validateSchema(p) \cup steps.errors
                           \cup validateConditions(p)
             warnings == steps.warnings \cup validateRiskLevels(p)
                             \cup sanityChecks(p)
         IN  [threw |-> FALSE, valid |-> IsValid(errors, warnings),
              errors |-> errors, warnings |-> warnings]

\* validate sets the overall risk level of the plan to the highest step risk.
PlanAfterValidate_Corrects(p) ==
    [p EXCEPT !.overallRiskLevel =
        getHighestRiskLevel([j \in DOMAIN p.steps |-> p.steps[j].riskLevel])]

\* part_012:11-176  no statement of the validator assigns to the plan, to a
\* step, to its parameters or to a condition.
PlanAfterValidate(p) == p

NoDraft == [none |-> TRUE]
NoValidation == [none |-> TRUE]

CheckIdle ==
    /\ vpc = "idle"
    /\ passed = NoDraft
    /\ vplan = NoDraft
    /\ vresult = NoValidation

\* part_012:7-26  a validator built with the registered tools is given a
\* draft plan.
ValidateCall ==
    /\ UNCHANGED <<nonceVars, engineVars, planVars, mixVars, evalVars>>
    /\ vpc = "idle"
    /\ \E p \in Drafts :
          LET v == validate(p, RegisteredTools)
          IN  /\ passed' = p
              /\ vplan' = PlanAfterValidate(p)
              /\ vresult' = IF v.threw THEN NoValidation ELSE v
              /\ vpc' = IF v.threw THEN "threw" ELSE "returned"

\* The caller drops the plan and the result.
ValidateDone ==
    /\ UNCHANGED <<nonceVars, engineVars, planVars, mixVars, evalVars>>
    /\ vpc \in {"returned", "threw"}
    /\ vpc' = "idle"
    /\ passed' = NoDraft
    /\ vplan' = NoDraft
    /\ vresult' = NoValidation

ValidateNext ==
    \/ ValidateCall
    \/ ValidateDone

\* ------------------------------------------------------- specifications
\* The parts that a specification does not exercise stay as constructed.
NonceIdle ==
    /\ nonceLock = InitialPromise
    /\ lastNonce = NULL
    /\ lastNonceTime = 0
    /\ resolved = {InitialPromise, BatchInitialPromise}
    /\ waiters = [p \in Promises |-> <<>>]
    /\ microtasks = <<>>
    /\ timerDue = [c \in Calls |-> NoTimer]
    /\ now = 0
    /\ pc = [c \in Calls |-> "idle"]
    /\ nonce = [c \in Calls |-> NULL]
    /\ callNow = [c \in Calls |-> 0]
    /\ chainNonce = 0
    /\ mempool = {}
    /\ ledgerRead = [c \in Calls |-> NULL]
    /\ errorSinceAcquire = FALSE
    /\ signer = [c \in Calls |-> "A"]
    /\ chainNonceB = 0
    /\ seededBy = NoAccount

EngineIdle ==
    /\ plan = [steps |-> <<>>]
    /\ stopOnFailure = TRUE
    /\ status = <<>>
    /\ stepError = <<>>
    /\ aborted = FALSE
    /\ stepIdx = 1
    /\ condIdx = 0
    /\ epc = "idle"
    /\ result = "none"
    /\ executionState = {}
    /\ summary = NoSummary
    /\ condLog = <<>>
    /\ invoked = <<>>
    /\ abortedAt = 0
    /\ runs = 0
    /\ clears = 0
    /\ runKeys = {}
    /\ holds = {}

\* part_005:31-32, market-condition-evaluator.ts:23-27  the evaluators as
\* the engine's constructor builds them: nothing is connected.
EvalIdle ==
    /\ connected = FALSE
    /\ connects = 0
    /\ lastEval = [step |-> 0, cond |-> 0, kind |-> "none", met |-> FALSE,
                   reason |-> "", observed |-> "nothing", change |-> "none",
                   actualValue |-> NaN]

InitNonce == NonceInit /\ EngineIdle /\ PlanInit /\ MixIdle /\ CheckIdle /\ EvalIdle
InitEngine == EngineInit /\ NonceIdle /\ PlanInit /\ MixIdle /\ CheckIdle /\ EvalIdle
InitPlan == PlanInit /\ NonceIdle /\ EngineIdle /\ MixIdle /\ CheckIdle /\ EvalIdle
InitRuns == RunsInit /\ NonceIdle /\ PlanInit /\ MixIdle /\ CheckIdle /\ EvalIdle
InitKeys == KeysInit /\ EngineIdle /\ PlanInit /\ MixIdle /\ CheckIdle /\ EvalIdle

\* Concurrent transferToken calls against one account.
SpecNonce == InitNonce /\ [][NonceNext]_vars

\* transferToken calls made one after another.
SpecSeq == InitNonce /\ [][SeqNext]_vars

\* transferToken calls made one after another by executors of two accounts.
SpecKeys == InitKeys /\ [][KeysNext]_vars

\* transferToken, executeBatchTransfer and cancelPendingTransaction calls
\* overlapping on one account.
SpecMix == InitNonce /\ [][MixNext]_vars

\* executeBatchTransfer calls on one account.
SpecBatch == InitNonce /\ [][BatchNext]_vars

\* transferToken calls, or executeBatchTransfer calls, on one account, with
\* an event loop that keeps running and ledger calls that all come back.
SpecLive == InitNonce /\ [][LiveNext]_vars /\ LiveFairness

\* One ExecutionEngine.execute run.
SpecEngine == InitEngine /\ [][EngineNext]_vars

\* Plans run one after another on one ExecutionEngine.
SpecRuns == InitRuns /\ [][RunsNext]_vars

\* PlanningOrchestrator.createPlan calls.
SpecPlan == InitPlan /\ [][PlanNext]_vars

\* One ExecutionEngine.execute run of a plan whose conditions go through the
\* evaluators.
InitEval ==
    EngineStart(EvalPlans) /\ NonceIdle /\ PlanInit /\ MixIdle /\ CheckIdle /\ EvalIdle
SpecEval == InitEval /\ [][EngineNext]_vars

\* PlanValidator.validate calls on draft plans.
InitValidate == CheckIdle /\ NonceIdle /\ EngineIdle /\ PlanInit /\ MixIdle /\ EvalIdle
SpecValidate == InitValidate /\ [][ValidateNext]_vars

\* ------------------------------------------------------------ properties
Terminal == {"completed", "failed", "skipped"}

\* Step j was reached by the loop and left behind.
Processed(j) == j < stepIdx

AllCondsMet(j) ==
    /\ Len(condLog[j]) = plan.steps[j].numConds
    /\ \A m \in 1..Len(condLog[j]) : condLog[j][m]

\* C1: transferToken calls that overlap in time never pass the same nonce to
\* token.transfer: two calls that are both awaiting token.transfer carry
\* different nonces.
C1_ConcurrentNoncesDistinct ==
    \A c, d \in Calls :
        (c # d /\ pc[c] = "transfer" /\ pc[d] = "transfer")
            => nonce[c] # nonce[d]

\* C2: the nonce lock is mutually exclusive: at most one call is between
\* acquiring the lock and the resolveLock that releases it.
C2_MutualExclusion ==
    \A c, d \in Calls : (Holds(c) /\ Holds(d)) => c = d

\* C3: once `aborted` is set it stays set, and every step the loop reaches
\* afterwards ends skipped with none of its conditions evaluated and its
\* tool never invoked.
C3_AbortMonotone ==
    /\ abortedAt # 0 => aborted
    /\ \A j \in DOMAIN status :
          (abortedAt # 0 /\ j > abortedAt /\ Processed(j))
              => /\ status[j] = "skipped"
                 /\ stepError[j] = "aborted"
                 /\ condLog[j] = <<>>
                 /\ invoked[j] = 0

C3_Witness ==
    /\ epc = "done"
    /\ abortedAt = 1
    /\ Len(plan.steps) >= 2
    /\ plan.steps[2].numConds > 0
    /\ status[2] = "skipped"

\* C4: with stopOnFailure, the run ends aborted exactly when some high or
\* critical step ended skipped on an unmet condition or ended failed because
\* its tool raised.
C4_AbortedIffHighRiskSkipOrRaise ==
    (epc = "done" /\ stopOnFailure) =>
        (summary.aborted <=>
            \E j \in DOMAIN status :
                /\ plan.steps[j].riskLevel \in {"high", "critical"}
                /\ \/ status[j] = "skipped" /\ stepError[j] = "condition"
                   \/ status[j] = "failed" /\ stepError[j] = "operation")

C6_TerminalStatusKept ==
    [][\A j \in DOMAIN status :
          status[j] \in Terminal => status'[j] = status[j]]_vars

\* C7: a plan for which validate reports an error is never executed: no tool
\* is invoked for it.
C7_InvalidPlanNotExecuted ==
    (epc = "done" /\ ~Validate(plan, RegisteredTools).valid)
        => \A j \in DOMAIN invoked : invoked[j] = 0

\* C8: createPlan returns a plan only with a validation of that plan that
\* has no errors; when validation reports an error it throws and returns
\* nothing.
C8_ReturnsOnlyValidPlans ==
    /\ cpc = "returned" =>
          /\ created # NoPlan
          /\ created.validation = Validate(created.plan, validatorTools)
          /\ created.validation.valid
          /\ created.validation.errors = {}
    /\ cpc = "threw" => created = NoPlan

C8_Witness ==
    /\ cpc = "returned"
    /\ Len(created.plan.steps) >= 2
    /\ created.validation.valid

\* C9: transferToken calls made one after another, all succeeding, each
\* acquiring the lock less than the cache window after the first one did,
\* submit the nonces n, n+1, ... where n is what the ledger returned to the
\* first of them.
C9_SequentialNonces ==
    \A a, b \in Calls :
        (/\ a <= b
         /\ ledgerRead[a] # NULL
         /\ \A d \in a..b :
               /\ pc[d] \in {"transfer", "returned"}
               /\ callNow[d] - callNow[a] < CacheWindowMs)
            => \A d \in a..b : nonce[d] = ledgerRead[a] + (d - a)

C9_Witness ==
    /\ pc[1] = "returned"
    /\ pc[2] = "returned"
    /\ ledgerRead[1] # NULL
    /\ ledgerRead[2] = NULL
    /\ callNow[2] > callNow[1]
    /\ nonce[2] = ledgerRead[1] + 1

\* C10: after an error in the locked section the cache is invalid when the
\* lock is released, and the next call to acquire the lock queries the
\* ledger: no call is about to acquire the lock with a usable cache entry
\* while an error is the last thing that released the lock.
C10_NextAcquireQueriesLedger ==
    (microtasks # <<>> /\ errorSinceAcquire) => ~CacheFresh(now)

\* C16: execute runs the steps in array order, one at a time: at most one
\* step is in progress, and a step is started (marked, a condition of it
\* evaluated, its tool invoked) only when every step before it is completed,
\* failed or skipped.
C16_StrictArrayOrder ==
    /\ \A j, m \in DOMAIN status :
          (status[j] = "in_progress" /\ status[m] = "in_progress") => j = m
    /\ \A j \in DOMAIN status :
          (status[j] # "pending" \/ condLog[j] # <<>> \/ invoked[j] > 0)
              => \A m \in 1..(j - 1) : status[m] \in Terminal

C16_Witness ==
    /\ Len(plan.steps) >= 2
    /\ status[1] = "completed"
    /\ status[2] = "in_progress"
    /\ epc = "callTool"
    /\ invoked[2] = 1

\* C17: for a plan that validate accepts, execute always comes to its return:
\* from every point of the run a next step exists, and the result it returns
\* has every step completed, failed or skipped and a summary whose completed,
\* failed and skipped counts add up to totalSteps, the number of steps.
C17_CompleteSummary ==
    Validate(plan, RegisteredTools).valid =>
        /\ epc \in {"loop", "evalCond", "callTool", "updateState"}
              => ENABLED EngineNext
        /\ epc = "done" =>
              /\ \A j \in DOMAIN status : status[j] \in Terminal
              /\ summary.totalSteps = Len(plan.steps)
              /\ summary.completed + summary.failed + summary.skipped
                    = summary.totalSteps

C17_Witness ==
    /\ epc = "done"
    /\ Validate(plan, RegisteredTools).valid
    /\ Len(plan.steps) >= 2
    /\ summary.failed >= 1
    /\ summary.skipped >= 1

\* C18: a step whose operation raised ends failed with the error of the
\* operation on it, and no step's operation is invoked more than once in a
\* run.
C18_FailedNotRetried ==
    \A j \in DOMAIN status :
        /\ invoked[j] <= 1
        /\ stepError[j] = "operation" =>
              (status[j] = "failed" /\ invoked[j] = 1 /\ Processed(j))

C18_Witness ==
    /\ epc = "done"
    /\ \E j \in DOMAIN status :
          /\ stepError[j] = "operation"
          /\ status[j] = "failed"
          /\ plan.steps[j].toolName \in RegisteredTools
          /\ invoked[j] = 1

\* C12: a nonce taken from the ledger (the cache was empty or too old) is
\* never the nonce of a transaction this process submitted successfully and
\* that is not mined yet.
C12_ReseedSkipsPending ==
    \A c \in Calls :
        (pc[c] = "transfer" /\ ledgerRead[c] # NULL) => nonce[c] \notin mempool

\* C13: a caller releases the lock only after its token.transfer has returned
\* or, on an error, after the cache is invalidated; and no caller acquires
\* the lock while another caller's token.transfer is outstanding.
C13_ReleaseAfterSubmit ==
    [][/\ \A c \in Calls :
             (c \notin resolved /\ c \in resolved')
                 => \/ pc[c] = "returned"
                    \/ pc'[c] = "threw" /\ lastNonce' = NULL
       /\ \A c \in Calls :
             (pc[c] = "awaitLock" /\ pc'[c] \in {"getNonce", "transfer"})
                 => \A d \in Calls \ {c} : pc[d] # "transfer"]_vars

C20_RunsIndependent ==
    \A j \in DOMAIN status :
        (/\ plan.steps[j].condKind = "custom"
         /\ \E m \in 1..Len(condLog[j]) : condLog[j][m])
            => CustomField \in runKeys

\* C14: the cache is shared by all executors of the process: a call, made on
\* a new executor, that acquires the lock while the entry written by earlier
\* calls is inside the window takes that entry as its nonce, advances it and
\* does not query the ledger.
C14_CacheSharedByInstances ==
    [][\A c \in Calls :
          (/\ pc[c] = "awaitLock"
           /\ pc'[c] # "awaitLock"
           /\ lastNonce # NULL
           /\ now - lastNonceTime < CacheWindowMs)
              => /\ pc'[c] = "transfer"
                 /\ nonce'[c] = lastNonce
                 /\ lastNonce' = lastNonce + 1
                 /\ lastNonceTime' = lastNonceTime
                 /\ ledgerRead'[c] = NULL]_vars

C14_Witness ==
    /\ pc[1] = "returned"
    /\ pc[2] = "transfer"
    /\ ledgerRead[1] # NULL
    /\ ledgerRead[2] = NULL
    /\ nonce[2] = nonce[1] + 1
    /\ lastNonce = nonce[1] + 2

\* C15: the nonce of a transfer signed by an account is never a cached value
\* that was seeded from the ledger count of another account.
C15_CachePerAccount ==
    [][\A c \in Calls :
          (pc[c] = "awaitLock" /\ pc'[c] = "transfer")
              => seededBy = signer[c]]_vars

\* C11: every ledger-mutating call of an account goes through one ticket and
\* one cache: a transferToken call and an executeBatchTransfer call never hold
\* their lock at the same time, a cancelPendingTransaction call holds the
\* ticket while it queries and sends, and two caches that both hold a value
\* hold the same one.
C11_OneTicketPerAccount ==
    /\ \A c \in Calls, b \in BatchCalls : ~(Holds(c) /\ BatchHolds(b))
    /\ kpc \in {"getNonce", "send"} => CancelHolds
    /\ (lastNonce # NULL /\ batchLastNonce # NULL) => lastNonce = batchLastNonce

\* C21: validate returns a result for every draft plan, malformed ones
\* included: it never raises, and the result holds the errors of every
\* check group together.
C21_ValidateNeverThrows ==
    vpc # "idle" =>
        /\ vpc = "returned"
        /\ validateSchema(passed) \cup validateConditions(passed)
               \cup validateSteps(passed, RegisteredTools).errors
               \subseteq vresult.errors

\* C22: valid is true exactly when the errors list is empty, whatever the
\* warnings are, and the risk-consistency check and the heuristic sanity
\* checks add warnings only, never errors.
C22_ValidIffNoErrors ==
    vpc = "returned" =>
        /\ vresult.valid <=> (vresult.errors = {})
        /\ validateRiskLevels(passed) \cup sanityChecks(passed)
               \subseteq vresult.warnings
        /\ \A e \in vresult.errors :
              e.message \notin
                  {"Overall risk level doesn't match highest step risk",
                   "CRITICAL risk operation - requires manual review",
                   "Plan has many steps - consider breaking into smaller operations",
                   "Plan includes many transfers - verify this is intentional",
                   "Transfer operation without balance check condition"}

\* A plan of more than ten steps and more than three transfers, none guarded
\* by a balance check, is returned as valid with the three warnings.
C22_Witness ==
    /\ vpc = "returned"
    /\ vresult.valid
    /\ Len(passed.steps) > StepCeiling
    /\ Cardinality({w \in vresult.warnings : w.step = 0}) >= 3

\* C23: a step whose toolName is not in the registry makes validate return
\* valid = false with an error naming that operation; on a single-step
\* low-risk plan that is well-formed but for the name, it is the only error
\* and there is no warning.
C23_UnknownToolIsAnError ==
    vpc = "returned" =>
        \A j \in DOMAIN passed.steps :
            LET name == passed.steps[j].toolName
                named == Entry("Unknown tool", j, 0, name)
                repaired == [passed EXCEPT !.steps[j].toolName = "getBalance"]
            IN  (name # MissingValue /\ name \notin RegisteredTools) =>
                    /\ ~vresult.valid
                    /\ named \in vresult.errors
                    /\ (/\ Len(passed.steps) = 1
                        /\ passed.steps[j].riskLevel = "low"
                        /\ passed.overallRiskLevel = "low"
                        /\ validate(repaired, RegisteredTools).errors = {})
                           => /\ vresult.errors = {named}
                              /\ vresult.warnings = {}

\* The plan whose one low-risk step names "doesNotExist" was validated.
C23_Witness ==
    /\ vpc = "returned"
    /\ passed = GoodPlan(<<GoodStep(UnknownTool, "low", <<>>)>>, "low")
    /\ vresult.errors = {Entry("Unknown tool", 1, 0, UnknownTool)}

\* C24: for every plan that validate accepts, the overall risk level is the
\* maximum of the step risk levels in the order low < medium < high <
\* critical, or the warnings hold a risk-mismatch warning; the mismatch is
\* never an error.
C24_OverallRiskIsMaxOrWarned ==
    (vpc = "returned" /\ vresult.valid) =>
        /\ \/ /\ \A j \in DOMAIN passed.steps :
                    Priority(passed.steps[j].riskLevel)
                        <= Priority(passed.overallRiskLevel)
              /\ \E j \in DOMAIN passed.steps :
                    passed.steps[j].riskLevel = passed.overallRiskLevel
           \/ \E w \in vresult.warnings :
                 w.message = "Overall risk level doesn't match highest step risk"
        /\ \A e \in vresult.errors :
              e.message # "Overall risk level doesn't match highest step risk"

\* An accepted plan whose overall level is below the level of its first step,
\* which is not its last step, and which carries the warning.
C24_Witness ==
    /\ vpc = "returned"
    /\ vresult.valid
    /\ Len(passed.steps) = 2
    /\ Priority(passed.steps[1].riskLevel) > Priority(passed.overallRiskLevel)
    /\ passed.steps[2].riskLevel = passed.overallRiskLevel
    /\ \E w \in vresult.warnings :
          w.message = "Overall risk level doesn't match highest step risk"

\* C25: for a transferToken step, a recipient that is not a syntactically
\* valid address is an error, an amount that is not a string parsing to a
\* strictly positive number is an error, and an amount above 1000 is a warning
\* and not an error.
C25_TransferParametersChecked ==
    vpc = "returned" =>
        \A j \in DOMAIN passed.steps :
            passed.steps[j].toolName = "transferToken" =>
                LET to == passed.steps[j].parameters.to
                    amount == passed.steps[j].parameters.amount
                    About(list, messages) ==
                        \E e \in list : e.step = j /\ e.message \in messages
                    AmountErrors ==
                        {"Invalid amount", "Amount must be a positive number"}
                IN  /\ (to.type # "string" \/ to.text # AddressText)
                           => About(vresult.errors, {"Invalid recipient address"})
                    /\ (amount.type # "string" \/ amount.text \in {"abc", "0", "-5"})
                           => About(vresult.errors, AmountErrors)
                    /\ amount = [type |-> "string", text |-> "5000"]
                           => /\ About(vresult.warnings, {"Large transfer amount"})
                              /\ ~About(vresult.errors, AmountErrors)

\* C26: every plan with a transfer step none of whose own conditions is a
\* balance_check gets the 'transfer without balance check' warning, also when
\* another step of the plan has a balance_check condition.
C26_UnguardedTransferWarned ==
    vpc = "returned" =>
        ((\E j \in DOMAIN passed.steps :
              /\ passed.steps[j].toolName = "transferToken"
              /\ \A k \in DOMAIN passed.steps[j].conditions :
                    passed.steps[j].conditions[k].type # "balance_check")
          => \E w \in vresult.warnings :
                w.message = "Transfer operation without balance check condition")

C28_EvaluationFailureSkipsStep ==
    (/\ lastEval.kind \in {"balance_check", "custom"}
     /\ lastEval.observed \in {"failed", "unusable", "absent"})
        => /\ ~lastEval.met
           /\ lastEval.reason # ""
           /\ lastEval.observed = "absent"
                  => lastEval.reason = "Field not found in execution state"
           /\ status[lastEval.step] = "skipped"
           /\ stepError[lastEval.step] = lastEval.reason
           /\ invoked[lastEval.step] = 0

\* The ledger query of a balance_check raised and the step was skipped.
C28_Witness ==
    /\ lastEval.kind = "balance_check"
    /\ lastEval.observed = "failed"
    /\ lastEval.reason = "Condition evaluation error: Tool execution failed"
    /\ status[lastEval.step] = "skipped"

\* C29: when a collaborator returns ambiguous data (a balance that does not
\* parse to a number, a quote with no price, a quote with no 24h change), the
\* condition is not met, for every operator and every condition kind.
C29_AmbiguousDataIsNotMet ==
    lastEval.observed = "ambiguous" => ~lastEval.met

\* C30: the market client is connected on the first market-condition
\* evaluation and not before, and once connected no later evaluation connects
\* again; while the collaborator is unreachable a price, volatility or trend
\* condition is not met, with a reason that names the failure, the step is
\* skipped and the run goes on to its summary.
C30_MarketConnectLazyAndCached ==
    /\ connects <= 1
    /\ connected <=> (connects = 1)
    /\ (\A j \in DOMAIN plan.steps :
           /\ plan.steps[j].condKind \in MarketConditionTypes
                 => condLog[j] = <<>>
           /\ plan.steps[j].then \in MarketConditionTypes
                 => Len(condLog[j]) < 2)
          => connects = 0
    /\ (lastEval.kind \in MarketConditionTypes /\ lastEval.observed = "unreachable")
          => /\ ~lastEval.met
             /\ lastEval.reason \in
                    {"Cannot evaluate market condition: Failed to connect",
                     "Market condition evaluation failed: Tool execution failed"}
             /\ status[lastEval.step] = "skipped"
             /\ epc = "done" \/ ENABLED EngineNext

\* The first market condition of a plan connected the client, and at the
\* second one the collaborator could not be reached: nothing was connected
\* again and the second step was skipped.
C30_Witness ==
    /\ connects = 1
    /\ lastEval.step = 2
    /\ lastEval.kind \in MarketConditionTypes
    /\ lastEval.observed = "unreachable"
    /\ status[2] = "skipped"
    /\ epc = "done"

\* C39: with stopOnFailure = false execute never aborts: no step is skipped
\* for an earlier failure, every step the loop has passed had its conditions
\* evaluated and, when they were all met (or it had none), its tool invoked
\* once, and the summary says aborted = false.
C39_NoAbortWithoutStopOnFailure ==
    ~stopOnFailure =>
        /\ ~aborted
        /\ \A j \in DOMAIN status :
              /\ stepError[j] # "aborted"
              /\ j < stepIdx =>
                    /\ plan.steps[j].numConds > 0 => condLog[j] # <<>>
                    /\ (\A k \in DOMAIN condLog[j] : condLog[j][k])
                          => invoked[j] = 1
        /\ summary # NoSummary => ~summary.aborted

C39_Witness ==
    /\ ~stopOnFailure
    /\ epc = "done"
    /\ Len(plan.steps) = 2
    /\ plan.steps[1].riskLevel = "critical"
    /\ plan.steps[1].numConds = 1
    /\ status[1] = "skipped"
    /\ stepError[1] = "condition"
    /\ invoked[2] = 1
    /\ ~summary.aborted

\* C40: createPlan checks the tool names of the draft against the tool list
\* passed to that same call, also when an earlier createPlan or
\* initializeValidator call was given another list: a plan it returns names
\* only tools of the list of its call, and its validation is the one that
\* list gives.
C40_ValidatedAgainstPassedTools ==
    cpc = "returned" =>
        /\ \A j \in DOMAIN created.plan.steps :
              created.plan.steps[j].toolName \in callTools
        /\ created.validation = Validate(created.plan, callTools)

\* C35: evaluating a condition that is not met has no side effect: the
\* evaluation that makes the step skipped leaves executionState as it was,
\* for every condition kind.
C35_UnmetConditionHasNoEffect ==
    [][(epc = "evalCond" /\ status'[stepIdx] = "skipped")
           => executionState' = executionState]_vars

\* C33: the conditions of a step are evaluated one at a time in declaration
\* order and conjunctively: the evaluation of a step is always that of its
\* next declared condition, every condition evaluated before it was met, so
\* after the first unmet one none is evaluated, and the error of the skipped
\* step is the reason that unmet condition gave.
C33_ShortCircuitInOrder ==
    /\ [](\A j \in DOMAIN status :
             /\ Len(condLog[j]) <= plan.steps[j].numConds
             /\ \A k \in DOMAIN condLog[j] : k < Len(condLog[j]) => condLog[j][k]
             /\ (lastEval.step = j /\ ~lastEval.met)
                   => /\ status[j] = "skipped"
                      /\ stepError[j] = lastEval.reason
                      /\ lastEval.cond = Len(condLog[j]))
    /\ [][epc = "evalCond"
             => /\ lastEval'.step = stepIdx
                /\ lastEval'.cond = Len(condLog[stepIdx]) + 1
                /\ lastEval'.kind = IF lastEval'.cond = 1
                                    THEN plan.steps[stepIdx].condKind
                                    ELSE plan.steps[stepIdx].then
                /\ condLog'[stepIdx] = Append(condLog[stepIdx], lastEval'.met)
                /\ \A k \in DOMAIN condLog[stepIdx] : condLog[stepIdx][k]]_vars

\* The first condition of a step was met, the second was not.
C33_Witness ==
    /\ plan.steps[1].numConds = 2
    /\ plan.steps[1].condKind = "balance_check"
    /\ condLog[1] = <<TRUE, FALSE>>
    /\ lastEval.cond = 2
    /\ lastEval.kind = "volatility_check"
    /\ status[1] = "skipped"
    /\ stepError[1] = "volatility does not meet condition"

\* C32: a trend condition evaluated on a quote that carries a 24h change c
\* is met exactly when its expected value, lower-cased, is the tier of c:
\* bullish for c > 2, bearish for c < -2, neutral otherwise, the edges 2 and
\* -2 included; the operator of the condition plays no part.
C32_TrendByFixedBands ==
    (lastEval.kind = "trend_check" /\ lastEval.observed = "clear") =>
        LET c == ParseFloat(lastEval.change).num
            tier == IF c > 2 * PerUnit THEN "bullish"
                    ELSE IF c < 0 - 2 * PerUnit THEN "bearish" ELSE "neutral"
        IN  lastEval.met <=> ToLowerCase(plan.steps[lastEval.step].value) = tier

\* A change of exactly 2 met a condition that expects neutral and whose
\* operator is not eq.
C32_Witness ==
    /\ lastEval.kind = "trend_check"
    /\ lastEval.change = "2"
    /\ plan.steps[lastEval.step].operator = "neq"
    /\ plan.steps[lastEval.step].value = "neutral"
    /\ lastEval.met

\* C34: once a step is completed and the loop has moved on, the execution
\* state holds its result and status under its own two keys; the balance and
\* symbol of the last completed getBalance step are under current_balance
\* and balance_symbol, the txHash and amount of the last completed
\* transferToken step under last_tx_hash and last_transfer_amount; a step
\* that is skipped, or failed because its operation raised, has written
\* nothing: its own keys are absent and no key holds a value from it.
C34_StateProjection ==
    \A j \in DOMAIN status :
        LET Keeps(name, id, field) ==
                /\ <<name, id>> \in executionState
                /\ [key |-> <<name, id>>, from |-> j, field |-> field] \in holds
            LastOf(tool) ==
                /\ plan.steps[j].toolName = tool
                /\ \A m \in (j + 1)..(stepIdx - 1) :
                      ~(status[m] = "completed" /\ plan.steps[m].toolName = tool)
        IN  /\ (status[j] = "completed" /\ j < stepIdx) =>
                  /\ Keeps("step_result", j, "result")
                  /\ Keeps("step_status", j, "status")
                  /\ LastOf("getBalance") =>
                        /\ Keeps("current_balance", 0, "balance")
                        /\ Keeps("balance_symbol", 0, "symbol")
                  /\ LastOf("transferToken") =>
                        /\ Keeps("last_tx_hash", 0, "txHash")
                        /\ Keeps("last_transfer_amount", 0, "amount")
            /\ (\/ status[j] = "skipped"
                \/ status[j] = "failed" /\ stepError[j] = "operation") =>
                  /\ <<"step_result", j>> \notin executionState
                  /\ <<"step_status", j>> \notin executionState
                  /\ \A h \in holds : h.from # j

\* A getBalance step completed, then a transferToken step failed because the
\* operation raised: the balance keys hold the first step's result and there
\* is no transfer key.
C34_Witness ==
    /\ epc = "done"
    /\ Len(plan.steps) = 2
    /\ plan.steps[1].toolName = "getBalance"
    /\ plan.steps[2].toolName = "transferToken"
    /\ status = <<"completed", "failed">>
    /\ stepError[2] = "operation"
    /\ [key |-> <<"current_balance", 0>>, from |-> 1, field |-> "balance"] \in holds
    /\ <<"last_tx_hash", 0>> \notin executionState

C37_BatchConsecutiveNonces ==
    /\ [](\A b \in BatchCalls :
             bpc[b] = "returned" =>
                 /\ bCurrent[b] = bStart[b] + bN[b]
                 /\ bTimerDue[b] # NoTimer =>
                       /\ b \notin resolved
                       /\ batchLastNonce = bStart[b] + bN[b])
    /\ [][\A b \in BatchCalls :
             /\ (bpc[b] = "transfer" /\ bCurrent'[b] # bCurrent[b])
                   => /\ bCurrent[b] \in bStart[b]..(bStart[b] + bN[b] - 1)
                      /\ mempool' = mempool \cup {bCurrent[b]}
                      /\ bCurrent'[b] = bCurrent[b] + 1
                      /\ bpc'[b] = "returned" <=> bCurrent'[b] = bStart[b] + bN[b]
             /\ (bpc[b] = "awaitLock" /\ bpc'[b] = "transfer")
                   => \A a \in BatchCalls :
                         (a < b /\ bpc[a] = "returned" /\ batchNonceLock = a)
                             => bStart'[b] = bStart[a] + bN[a]
             /\ (bpc[b] = "transfer" /\ bpc'[b] = "threw")
                   => /\ mempool' = mempool
                      /\ batchLastNonce' = NULL
                      /\ b \in resolved']_vars

\* C38: the lock is always released and never deadlocks: a call that holds
\* the lock (transferToken's or executeBatchTransfer's) or waits for it does
\* not stay so for ever, so that in the end every call that was made has
\* returned or thrown and has resolved the promise it installed; a promise
\* is resolved at the moment its call catches an error, or by the call's
\* timer no sooner than 100 ms after its submission returned.
C38_LockAlwaysReleased ==
    /\ <>[](/\ \A c \in Calls : ~Holds(c) /\ pc[c] # "awaitLock"
            /\ \A b \in BatchCalls : ~BatchHolds(b) /\ bpc[b] # "awaitLock")
    /\ [](/\ \A c \in Calls :
               (~Holds(c) /\ pc[c] = "returned") => c \in resolved
          /\ \A b \in BatchCalls :
               (~BatchHolds(b) /\ bpc[b] = "returned") => b \in resolved)
    /\ [][/\ \A c \in Calls :
               /\ (Holds(c) /\ pc'[c] = "threw") => c \in resolved'
               /\ (c \notin resolved /\ c \in resolved')
                     => \/ pc[c] # "threw" /\ pc'[c] = "threw"
                        \/ /\ pc[c] = "returned"
                           /\ timerDue[c] # NoTimer
                           /\ now >= timerDue[c]
          /\ \A b \in BatchCalls :
               /\ (BatchHolds(b) /\ bpc'[b] = "threw") => b \in resolved'
               /\ (b \notin resolved /\ b \in resolved')
                     => \/ bpc[b] # "threw" /\ bpc'[b] = "threw"
                        \/ /\ bpc[b] = "returned"
                           /\ bTimerDue[b] # NoTimer
                           /\ now >= bTimerDue[b]]_vars

\* Three calls waited for the lock at one time, and all four have returned
\* with their promises resolved.
C38_Witness ==
    /\ \A c \in Calls : pc[c] = "returned" /\ c \in resolved
    /\ callNow[2] = callNow[4]
    /\ callNow[1] < callNow[2]

\* C31: every evaluator compares numbers the same way, eq and neq with the
\* epsilon: the verdict of a balance, price or volatility condition on an
\* actual number is what either compareValues gives for its actual value,
\* operator and expected value, and when the two values are less than 0.0001
\* apart eq is met and neq is not.
C31_SameComparisonEverywhere ==
    (/\ lastEval.kind \in {"balance_check", "price_check", "volatility_check"}
     /\ ~lastEval.actualValue.nan)
        => LET actual == lastEval.actualValue
               operator == plan.steps[lastEval.step].operator
               expected == ParseFloat(plan.steps[lastEval.step].value)
               close == /\ actual.num - expected.num < Epsilon
                        /\ expected.num - actual.num < Epsilon
           IN  /\ lastEval.met = compareValues(actual, operator, expected)
               /\ lastEval.met = marketCompareValues(actual, operator, expected)
               /\ (close /\ operator = "eq") => lastEval.met
               /\ (close /\ operator = "neq") => ~lastEval.met

====
